---- MODULE Spec2Model ----
(***************************************************************************)
(* p2-github-scheduler: the reconciliation engine between the tracking     *)
(* service's work items and the scheduler's output.                        *)
(*                                                                         *)
(* Strings built with fmt.Sprintf are modelled as tuples of their parts:   *)
(* "github.com/%s/%s/issues/%d" is <<"github.com", owner, repo, "issues",  *)
(* n>>, "%s/%s#%d" is <<owner, repo, n>>, "draft:%s" is <<"draft:", id>>.  *)
(* A time.Time is a number of ticks since the zero time; a nil pointer to  *)
(* a time.Time or to a float64 is Nil.                                     *)
(***************************************************************************)
EXTENDS Integers, Sequences, FiniteSets, TLC

VARIABLES
    issues,         \* map[string]IssueWithProject: the WorkItem store
    ganttData,      \* planner.GanttData.Bars: the scheduler output
    unschedulable,  \* map[string]bool: refs holding a SchedulingIssue
    updates,        \* []DateUpdate returned by the last PrepareUpdates
    pending,        \* the DateUpdates the write loop has not applied yet
    runs,           \* number of the current run
    pc,             \* position of the run
    tasks,          \* []planner.Task returned by IssuesToTasks
    schedIssues,    \* []SchedulingIssue accumulated by the run
    entries,        \* planner.ScheduledEntries.Entries
    atRiskIssues,   \* []SchedulingIssue returned by DetectAtRiskIssues
    filter,         \* the PrivacyFilter
    subject,        \* the arguments of a call of a redaction helper
    redacted,       \* what the redaction helpers return for subject
    attempts,       \* the write calls made to the tracking service
    result,         \* what run, or the last comment operation, returned
    dryRun,         \* the --dry-run flag
    comments        \* the comments of an issue, as the service lists them

reportVars == <<entries, atRiskIssues>>

privacyVars == <<filter, subject, redacted>>

serviceVars == <<attempts, result, dryRun, comments>>

vars == <<issues, ganttData, unschedulable, updates, pending, runs, pc,
          tasks, schedIssues, entries, atRiskIssues, filter, subject,
          redacted, attempts, result, dryRun, comments>>

(***************************************************************************)
(* Bounds                                                                  *)
(***************************************************************************)
TicksPerDay == 2     \* time-of-day resolution: ticks in one calendar day
MaxTime == 4         \* proposed dates range over ticks 0..MaxTime
MaxStoredDay == 1    \* recorded dates range over days 1..MaxStoredDay
MaxRuns == 2         \* runs of the tool over the same scheduler output
MaxBlockers == 2     \* blocked-by edges of one item
MaxDueDay == 2       \* due dates range over days 1..MaxDueDay

Nil == -1

(***************************************************************************)
(* time.Time                                                               *)
(***************************************************************************)
IsZero(t) == t = 0

\* t.Format("2006-01-02"): the calendar day of t
FormatDate(t) == t \div TicksPerDay

\* strings.EqualFold over the state strings the tracking service returns
ToLower(s) ==
    CASE s = "CLOSED" -> "closed"
      [] s = "OPEN" -> "open"
      [] OTHER -> s

EqualFold(s, t) == ToLower(s) = ToLower(t)

(***************************************************************************)
(* Keys                                                                    *)
(***************************************************************************)
\* fmt.Sprintf("github.com/%s/%s/issues/%d", owner, repo, n)
IssueKey(owner, repo, n) == <<"github.com", owner, repo, "issues", n>>

\* fmt.Sprintf("draft:%s", itemID)
DraftKey(itemID) == <<"draft:", itemID>>

\* fmt.Sprintf("%s/%s#%d", owner, repo, n)
DepID(owner, repo, n) == <<owner, repo, n>>

\* the task id PrepareUpdates derives for an item: always "%s/%s#%d"
PrepTaskID(iwp) == DepID(iwp.Owner, iwp.Repo, iwp.IssueNum)

\* the task id IssuesToTasks gives an item: "draft:<item id>" for a draft
TaskID(iwp) ==
    IF iwp.IsDraft THEN DraftKey(iwp.ProjectItemID)
    ELSE DepID(iwp.Owner, iwp.Repo, iwp.IssueNum)

\* the store key FetchProjectItems files an item under
RefOf(iwp) ==
    IF iwp.IsDraft THEN DraftKey(iwp.ProjectItemID)
    ELSE IssueKey(iwp.Owner, iwp.Repo, iwp.IssueNum)

(***************************************************************************)
(* github.ProjectItemInfo                                                  *)
(***************************************************************************)
DateFields == {"Expected Start", "Expected Completion", "98% Completion"}
EstimateFields == {"Low Estimate", "High Estimate"}

\* a nil pointer to github.ProjectItemInfo
NoProject == [ProjectID |-> "", ItemID |-> "", FieldIDs |-> {}]

ProjectInfo(itemID, fieldIDs) ==
    [ProjectID |-> "proj-1", ItemID |-> itemID, FieldIDs |-> fieldIDs]

\* hasSchedulingDates as FetchProjectItems derives it from the date fields
HasDates(es, ec, c98) == es /= Nil \/ ec /= Nil \/ c98 /= Nil

(***************************************************************************)
(* PrepareUpdates                                                          *)
(***************************************************************************)
\* sameDate comparing the instants instead of the calendar days
sameDateExact(existing, new) ==
    IF existing = Nil THEN IsZero(new) ELSE existing = new

\* existing is a pointer to a time.Time, new a time.Time
sameDate(existing, new) ==
    IF existing = Nil THEN IsZero(new)
    ELSE FormatDate(existing) = FormatDate(new)

isOnHold(iwp) == iwp.SchedulingStatus = "On Hold"

isClosed(iwp) == EqualFold(iwp.State, "closed")

\* NothingToClear with on-hold items cleared for their estimates as well
NothingToClearCountingEstimates(iwp) ==
    /\ isOnHold(iwp) \/ isClosed(iwp)
    /\ ~iwp.HasSchedulingDates
    /\ iwp.LowEstimate = Nil
    /\ iwp.HighEstimate = Nil

\* the two "continue" statements that skip the clear of a terminal item
NothingToClear(iwp) ==
    \/ isOnHold(iwp) /\ ~iwp.HasSchedulingDates
    \/ /\ isClosed(iwp)
       /\ ~iwp.HasSchedulingDates
       /\ iwp.LowEstimate = Nil
       /\ iwp.HighEstimate = Nil

ClearReasonOf(iwp) == IF isClosed(iwp) THEN "closed" ELSE "on hold"

\* ClearUpdate that carries the stored dates of the item along
ClearUpdateCarryingDates(iwp, reason) ==
    [Owner |-> iwp.Owner, Repo |-> iwp.Repo,
     RepoKey |-> <<iwp.Owner, iwp.Repo>>,
     IssueNum |-> iwp.IssueNum, Name |-> iwp.Title,
     Project |-> iwp.Project,
     ExpectedStart |-> IF iwp.ExpectedStart = Nil THEN 0
                       ELSE iwp.ExpectedStart,
     ExpectedCompletion |-> IF iwp.ExpectedCompletion = Nil THEN 0
                            ELSE iwp.ExpectedCompletion,
     Completion98 |-> IF iwp.Completion98 = Nil THEN 0 ELSE iwp.Completion98,
     ClearDates |-> TRUE, ClearReason |-> reason]

ClearUpdate(iwp, reason) ==
    [Owner |-> iwp.Owner, Repo |-> iwp.Repo,
     RepoKey |-> <<iwp.Owner, iwp.Repo>>,
     IssueNum |-> iwp.IssueNum, Name |-> iwp.Title,
     Project |-> iwp.Project,
     ExpectedStart |-> 0, ExpectedCompletion |-> 0, Completion98 |-> 0,
     ClearDates |-> TRUE, ClearReason |-> reason]

SetUpdate(iwp, bar) ==
    [Owner |-> iwp.Owner, Repo |-> iwp.Repo,
     RepoKey |-> <<iwp.Owner, iwp.Repo>>,
     IssueNum |-> iwp.IssueNum, Name |-> bar.Name,
     Project |-> iwp.Project,
     ExpectedStart |-> bar.ExpStartDate,
     ExpectedCompletion |-> bar.MeanDate,
     Completion98 |-> bar.End98Date,
     ClearDates |-> FALSE, ClearReason |-> ""]

\* ProcessedKey without the owner: "%s#%d" of repo and number
ProcessedKeyWithoutOwner(iwp) == DepID("", iwp.Repo, iwp.IssueNum)

\* the key of the processed map for an item
ProcessedKey(iwp) == PrepTaskID(iwp)

\* FirstPassStep that clears items without project linkage as well
FirstPassStepUnlinked(acc, iwp) ==
    IF ~(isOnHold(iwp) \/ isClosed(iwp)) THEN acc
    ELSE LET marked == [acc EXCEPT !.processed = @ \cup {ProcessedKey(iwp)}]
         IN  IF NothingToClear(iwp) THEN marked
             ELSE [marked EXCEPT !.updates =
                      Append(@, ClearUpdate(iwp, ClearReasonOf(iwp)))]

\* FirstPassStep that never marks an item processed
FirstPassStepUnmarked(acc, iwp) ==
    IF iwp.Project = NoProject THEN acc
    ELSE IF ~(isOnHold(iwp) \/ isClosed(iwp)) THEN acc
    ELSE IF NothingToClear(iwp) THEN acc
    ELSE [acc EXCEPT !.updates =
             Append(@, ClearUpdate(iwp, ClearReasonOf(iwp)))]

\* FirstPassStep that marks an item processed only when it emits a clear
FirstPassStepMarkOnEmit(acc, iwp) ==
    IF iwp.Project = NoProject THEN acc
    ELSE IF ~(isOnHold(iwp) \/ isClosed(iwp)) THEN acc
    ELSE IF NothingToClear(iwp) THEN acc
    ELSE [processed |-> acc.processed \cup {ProcessedKey(iwp)},
          updates |-> Append(acc.updates,
                             ClearUpdate(iwp, ClearReasonOf(iwp)))]

\* body of the first loop: acc is [processed, updates]
FirstPassStep(acc, iwp) ==
    IF iwp.Project = NoProject THEN acc
    ELSE IF ~(isOnHold(iwp) \/ isClosed(iwp)) THEN acc
    ELSE LET marked == [acc EXCEPT !.processed = @ \cup {ProcessedKey(iwp)}]
         IN  IF NothingToClear(iwp) THEN marked
             ELSE [marked EXCEPT !.updates =
                      Append(@, ClearUpdate(iwp, ClearReasonOf(iwp)))]

RECURSIVE FirstPass(_, _, _)
FirstPass(iss, order, acc) ==
    IF order = <<>> THEN acc
    ELSE FirstPass(iss, Tail(order), FirstPassStep(acc, iss[Head(order)]))

\* taskToIssue: a later item of the iteration overwrites an earlier one
TaskToIssue(iss, order) ==
    [t \in {PrepTaskID(iss[k]) : k \in DOMAIN iss} |->
        LET last == CHOOSE i \in 1..Len(order) :
                        /\ PrepTaskID(iss[order[i]]) = t
                        /\ \A j \in (i + 1)..Len(order) :
                              PrepTaskID(iss[order[j]]) /= t
        IN  iss[order[last]]]

\* body of the second loop
SecondPassStep(acc, ref, iwp, uns) ==
    IF iwp.Project = NoProject THEN acc
    ELSE IF ProcessedKey(iwp) \in acc.processed THEN acc
    ELSE IF ref \in uns /\ iwp.HasSchedulingDates
         THEN [processed |-> acc.processed \cup {ProcessedKey(iwp)},
               updates |-> Append(acc.updates,
                                  ClearUpdate(iwp, "unschedulable"))]
         ELSE acc

RECURSIVE SecondPass(_, _, _, _)
SecondPass(iss, order, uns, acc) ==
    IF order = <<>> THEN acc
    ELSE SecondPass(iss, Tail(order), uns,
                    SecondPassStep(acc, Head(order), iss[Head(order)], uns))

DatesUnchanged(iwp, bar) ==
    /\ sameDate(iwp.ExpectedStart, bar.ExpStartDate)
    /\ sameDate(iwp.ExpectedCompletion, bar.MeanDate)
    /\ sameDate(iwp.Completion98, bar.End98Date)

\* ThirdPassStep without the check of the unschedulable set
ThirdPassStepIgnoringFlags(acc, bar, taskToIssue, uns) ==
    IF bar.IsPackage THEN acc
    ELSE IF bar.ID \notin DOMAIN taskToIssue THEN acc
    ELSE LET iwp == taskToIssue[bar.ID]
         IN  IF iwp.Project = NoProject THEN acc
             ELSE IF bar.ID \in acc.processed THEN acc
             ELSE IF DatesUnchanged(iwp, bar) THEN acc
             ELSE [acc EXCEPT !.updates = Append(@, SetUpdate(iwp, bar))]

\* body of the third loop
ThirdPassStep(acc, bar, taskToIssue, uns) ==
    IF bar.IsPackage THEN acc
    ELSE IF bar.ID \notin DOMAIN taskToIssue THEN acc
    ELSE LET iwp == taskToIssue[bar.ID]
             ref == IssueKey(iwp.Owner, iwp.Repo, iwp.IssueNum)
         IN  IF iwp.Project = NoProject THEN acc
             ELSE IF bar.ID \in acc.processed THEN acc
             ELSE IF ref \in uns THEN acc
             ELSE IF DatesUnchanged(iwp, bar) THEN acc
             ELSE [acc EXCEPT !.updates = Append(@, SetUpdate(iwp, bar))]

RECURSIVE ThirdPass(_, _, _, _)
ThirdPass(bars, taskToIssue, uns, acc) ==
    IF bars = <<>> THEN acc
    ELSE ThirdPass(Tail(bars), taskToIssue, uns,
                   ThirdPassStep(acc, Head(bars), taskToIssue, uns))

\* ord holds the orders in which the three range loops visit the map
PrepareUpdates(gd, iss, uns, ord) ==
    LET first == FirstPass(iss, ord.first,
                           [processed |-> {}, updates |-> <<>>])
        taskToIssue == TaskToIssue(iss, ord.lookup)
        second == SecondPass(iss, ord.second, uns, first)
        third == ThirdPass(gd, taskToIssue, uns, second)
    IN  third.updates

(***************************************************************************)
(* ApplyUpdate: the field writes, as the next fetch of the item sees them  *)
(***************************************************************************)
FieldsToClean(update) ==
    IF update.ClearReason = "closed" THEN DateFields \cup EstimateFields
    ELSE DateFields

\* ClearField on each field of the project that is to be cleaned
ClearFields(iwp, update) ==
    LET clean == FieldsToClean(update) \cap update.Project.FieldIDs
        es == IF "Expected Start" \in clean THEN Nil ELSE iwp.ExpectedStart
        ec == IF "Expected Completion" \in clean THEN Nil
              ELSE iwp.ExpectedCompletion
        c98 == IF "98% Completion" \in clean THEN Nil ELSE iwp.Completion98
    IN  [iwp EXCEPT
            !.ExpectedStart = es,
            !.ExpectedCompletion = ec,
            !.Completion98 = c98,
            !.HasSchedulingDates = HasDates(es, ec, c98),
            !.LowEstimate = IF "Low Estimate" \in clean THEN Nil ELSE @,
            !.HighEstimate = IF "High Estimate" \in clean THEN Nil ELSE @]

\* UpdateDateField: a date field keeps the calendar day of the time written
WriteDate(old, new, fieldName, fieldIDs) ==
    IF ~IsZero(new) /\ fieldName \in fieldIDs
    THEN FormatDate(new) * TicksPerDay
    ELSE old

SetFields(iwp, update) ==
    LET ids == update.Project.FieldIDs
        es == WriteDate(iwp.ExpectedStart, update.ExpectedStart,
                        "Expected Start", ids)
        ec == WriteDate(iwp.ExpectedCompletion, update.ExpectedCompletion,
                        "Expected Completion", ids)
        c98 == WriteDate(iwp.Completion98, update.Completion98,
                         "98% Completion", ids)
    IN  [iwp EXCEPT
            !.ExpectedStart = es,
            !.ExpectedCompletion = ec,
            !.Completion98 = c98,
            !.HasSchedulingDates = HasDates(es, ec, c98)]

ApplyUpdate(iss, update) ==
    IF update.Project = NoProject THEN iss
    ELSE [k \in DOMAIN iss |->
            IF iss[k].ProjectItemID = update.Project.ItemID
            THEN IF update.ClearDates THEN ClearFields(iss[k], update)
                 ELSE SetFields(iss[k], update)
            ELSE iss[k]]

(***************************************************************************)
(* ApplyUpdate: the calls it makes, each of which can fail                 *)
(***************************************************************************)
\* FieldsToCleanList that cleans the estimates whatever the reason
FieldsToCleanListAlways(update) ==
    <<"Expected Start", "Expected Completion", "98% Completion",
      "Low Estimate", "High Estimate">>

\* fieldsToClean, in the order of the loop
FieldsToCleanList(update) ==
    <<"Expected Start", "Expected Completion", "98% Completion">>
        \o (IF update.ClearReason = "closed"
            THEN <<"Low Estimate", "High Estimate">>
            ELSE <<>>)

\* client.ClearField(projectID, itemID, fieldID) and whether it succeeded
ClearCall(update, fieldName, ok) ==
    [op |-> "ClearField", ProjectID |-> update.Project.ProjectID,
     ItemID |-> update.Project.ItemID, field |-> fieldName, value |-> 0,
     ok |-> ok]

\* client.UpdateDateField(projectID, itemID, fieldID, t)
UpdateCall(update, fieldName, t, ok) ==
    [op |-> "UpdateDateField", ProjectID |-> update.Project.ProjectID,
     ItemID |-> update.Project.ItemID, field |-> fieldName, value |-> t,
     ok |-> ok]

\* ClearEach that gives up at the first ClearField that fails
RECURSIVE ClearEachUntilFailure(_, _, _, _)
ClearEachUntilFailure(update, fields, failing, calls) ==
    IF fields = <<>> THEN calls
    ELSE IF Head(fields) \notin update.Project.FieldIDs
         THEN ClearEachUntilFailure(update, Tail(fields), failing, calls)
    ELSE IF Head(fields) \in failing
         THEN Append(calls, ClearCall(update, Head(fields), FALSE))
    ELSE ClearEachUntilFailure(update, Tail(fields), failing,
             Append(calls, ClearCall(update, Head(fields), TRUE)))

\* the loop over fieldsToClean; failing holds the fields whose call fails
RECURSIVE ClearEach(_, _, _, _)
ClearEach(update, fields, failing, calls) ==
    IF fields = <<>> THEN calls
    ELSE IF Head(fields) \notin update.Project.FieldIDs
         THEN ClearEach(update, Tail(fields), failing, calls)
    ELSE ClearEach(update, Tail(fields), failing,
             Append(calls, ClearCall(update, Head(fields),
                                     Head(fields) \notin failing)))

\* the three dates of a set-dates DateUpdate, in the order they are written
DatesToSet(update) ==
    <<<<"Expected Start", update.ExpectedStart>>,
      <<"Expected Completion", update.ExpectedCompletion>>,
      <<"98% Completion", update.Completion98>>>>

\* the three "if !t.IsZero()" blocks
RECURSIVE SetEach(_, _, _, _)
SetEach(update, dates, failing, calls) ==
    IF dates = <<>> THEN calls
    ELSE IF IsZero(Head(dates)[2])
         THEN SetEach(update, Tail(dates), failing, calls)
    ELSE IF Head(dates)[1] \notin update.Project.FieldIDs
         THEN SetEach(update, Tail(dates), failing, calls)
    ELSE SetEach(update, Tail(dates), failing,
             Append(calls, UpdateCall(update, Head(dates)[1], Head(dates)[2],
                                      Head(dates)[1] \notin failing)))

\* ApplyUpdate: the calls made and the error returned
ApplyUpdateCalls(update, failing) ==
    IF update.Project = NoProject
    THEN [calls |-> <<>>, err |-> "no project info"]
    ELSE IF update.ClearDates
         THEN [calls |-> ClearEach(update, FieldsToCleanList(update),
                                   failing, <<>>),
               err |-> ""]
    ELSE [calls |-> SetEach(update, DatesToSet(update), failing, <<>>),
          err |-> ""]

\* what a call that succeeded leaves in the field of the item
Served(iwp, call) ==
    LET v == IF call.op = "ClearField" THEN Nil
             ELSE FormatDate(call.value) * TicksPerDay
        es == IF call.field = "Expected Start" THEN v ELSE iwp.ExpectedStart
        ec == IF call.field = "Expected Completion" THEN v
              ELSE iwp.ExpectedCompletion
        c98 == IF call.field = "98% Completion" THEN v ELSE iwp.Completion98
    IN  [iwp EXCEPT
            !.ExpectedStart = es,
            !.ExpectedCompletion = ec,
            !.Completion98 = c98,
            !.HasSchedulingDates = HasDates(es, ec, c98),
            !.LowEstimate = IF call.field = "Low Estimate" THEN Nil ELSE @,
            !.HighEstimate = IF call.field = "High Estimate" THEN Nil ELSE @]

\* the store of the service after the calls
RECURSIVE ServeCalls(_, _)
ServeCalls(iss, calls) ==
    IF calls = <<>> THEN iss
    ELSE ServeCalls(
             [k \in DOMAIN iss |->
                 IF Head(calls).ok
                    /\ iss[k].ProjectItemID = Head(calls).ItemID
                 THEN Served(iss[k], Head(calls))
                 ELSE iss[k]],
             Tail(calls))

(***************************************************************************)
(* DetectAtRiskIssues                                                      *)
(***************************************************************************)
\* a SchedulingIssue; its details are a list
SchedulingIssue(ref, iwp, reason, details) ==
    [IssueRef |-> ref, IssueNum |-> iwp.IssueNum, Owner |-> iwp.Owner,
     Repo |-> iwp.Repo, Reason |-> reason, Details |-> details]

\* body of the loop over updates
AtRiskStep(acc, update, iss) ==
    LET ref == IssueKey(update.Owner, update.Repo, update.IssueNum)
    IN  IF update.ClearDates THEN acc
        ELSE IF ref \notin DOMAIN iss THEN acc
        ELSE IF iss[ref].DueDate = Nil THEN acc
        ELSE IF /\ ~IsZero(update.ExpectedCompletion)
                /\ update.ExpectedCompletion > iss[ref].DueDate
        THEN Append(acc,
                 SchedulingIssue(ref, iss[ref], "at_risk",
                     <<<<"Due Date: ", FormatDate(iss[ref].DueDate)>>,
                       <<"Expected Completion: ",
                         FormatDate(update.ExpectedCompletion)>>>>))
        ELSE acc

RECURSIVE AtRiskFrom(_, _, _)
AtRiskFrom(list, iss, acc) ==
    IF list = <<>> THEN acc
    ELSE AtRiskFrom(Tail(list), iss, AtRiskStep(acc, Head(list), iss))

DetectAtRiskIssues(list, iss) == AtRiskFrom(list, iss, <<>>)

(***************************************************************************)
(* ExtractCycleIssues                                                      *)
(***************************************************************************)
\* hasIssue: the refs of the diagnostics in existing
HasIssue(existing) == {existing[d].IssueRef : d \in 1..Len(existing)}

\* the first item in the order of the range whose task id is that of the
\* entry and that has no diagnostic yet, as a set of at most one ref
FirstMatch(entry, iss, order, hasIssue) ==
    LET hits == {i \in 1..Len(order) :
                    /\ PrepTaskID(iss[order[i]]) = entry.ID
                    /\ order[i] \notin hasIssue}
    IN  IF hits = {} THEN {}
        ELSE {order[CHOOSE i \in hits : \A j \in hits : i <= j]}

\* ExtractCycleStep that does not look at hasIssue
ExtractCycleStepAnyway(acc, entry, iss, order) ==
    IF entry.IsPackage \/ Len(entry.Cycle) = 0 THEN acc
    ELSE LET match == FirstMatch(entry, iss, order, {})
         IN  IF match = {} THEN acc
             ELSE LET ref == CHOOSE r \in match : TRUE
                  IN  [existing |-> Append(acc.existing,
                                       SchedulingIssue(ref, iss[ref], "cycle",
                                                  entry.Cycle)),
                       hasIssue |-> acc.hasIssue \cup {ref}]

\* body of the loop over entries.Entries: acc is [existing, hasIssue]
ExtractCycleStep(acc, entry, iss, order) ==
    IF entry.IsPackage \/ Len(entry.Cycle) = 0 THEN acc
    ELSE LET match == FirstMatch(entry, iss, order, acc.hasIssue)
         IN  IF match = {} THEN acc
             ELSE LET ref == CHOOSE r \in match : TRUE
                  IN  [existing |-> Append(acc.existing,
                                       SchedulingIssue(ref, iss[ref], "cycle",
                                                  entry.Cycle)),
                       hasIssue |-> acc.hasIssue \cup {ref}]

RECURSIVE ExtractCycleFrom(_, _, _, _)
ExtractCycleFrom(list, iss, order, acc) ==
    IF list = <<>> THEN acc
    ELSE ExtractCycleFrom(Tail(list), iss, order,
                          ExtractCycleStep(acc, Head(list), iss, order))

\* order is the order in which the range over issues yields the refs
ExtractCycleIssues(list, iss, existing, order) ==
    ExtractCycleFrom(list, iss, order,
                     [existing |-> existing,
                      hasIssue |-> HasIssue(existing)]).existing

(***************************************************************************)
(* BuildReverseDependencies                                                *)
(***************************************************************************)
\* a github.IssueRef: one end of a blocking or blocked-by edge
IssueRef(owner, repo, number) ==
    [Owner |-> owner, Repo |-> repo, Number |-> number]

\* ReverseStep that appends without looking for an equal edge
ReverseStepWithoutDedupe(iss, iwp, blocked) ==
    LET blockedRef == IssueKey(blocked.Owner, blocked.Repo, blocked.Number)
    IN  IF blockedRef \notin DOMAIN iss THEN iss
        ELSE [iss EXCEPT ![blockedRef].BlockedBy =
                 Append(@, IssueRef(iwp.Owner, iwp.Repo, iwp.IssueNum))]

\* ReverseStep that overwrites the list of the blocked item
ReverseStepReplacing(iss, iwp, blocked) ==
    LET blockedRef == IssueKey(blocked.Owner, blocked.Repo, blocked.Number)
    IN  IF blockedRef \notin DOMAIN iss THEN iss
        ELSE [iss EXCEPT ![blockedRef].BlockedBy =
                 <<IssueRef(iwp.Owner, iwp.Repo, iwp.IssueNum)>>]

\* ReverseStep that takes two edges of equal number for the same edge
ReverseStepByNumber(iss, iwp, blocked) ==
    LET blockedRef == IssueKey(blocked.Owner, blocked.Repo, blocked.Number)
    IN  IF blockedRef \notin DOMAIN iss THEN iss
        ELSE
          LET blockedBy == iss[blockedRef].BlockedBy
              alreadyExists ==
                  \E e \in 1..Len(blockedBy) :
                      blockedBy[e].Number = iwp.IssueNum
          IN  IF alreadyExists THEN iss
              ELSE [iss EXCEPT ![blockedRef].BlockedBy =
                       Append(@, IssueRef(iwp.Owner, iwp.Repo,
                                          iwp.IssueNum))]

\* body of the loop over iwp.Blocking
ReverseStep(iss, iwp, blocked) ==
    LET blockedRef == IssueKey(blocked.Owner, blocked.Repo, blocked.Number)
    IN  IF blockedRef \notin DOMAIN iss THEN iss
        ELSE
          LET blockedBy == iss[blockedRef].BlockedBy
              alreadyExists ==
                  \E e \in 1..Len(blockedBy) :
                      /\ blockedBy[e].Owner = iwp.Owner
                      /\ blockedBy[e].Repo = iwp.Repo
                      /\ blockedBy[e].Number = iwp.IssueNum
          IN  IF alreadyExists THEN iss
              ELSE [iss EXCEPT ![blockedRef].BlockedBy =
                       Append(@, IssueRef(iwp.Owner, iwp.Repo,
                                          iwp.IssueNum))]

RECURSIVE ReverseEdges(_, _, _)
ReverseEdges(iss, iwp, blocking) ==
    IF blocking = <<>> THEN iss
    ELSE ReverseEdges(ReverseStep(iss, iwp, Head(blocking)), iwp,
                      Tail(blocking))

\* order is the order in which the range over issues yields the refs
RECURSIVE BuildReverseDependencies(_, _)
BuildReverseDependencies(iss, order) ==
    IF order = <<>> THEN iss
    ELSE BuildReverseDependencies(
             ReverseEdges(iss, iss[Head(order)], iss[Head(order)].Blocking),
             Tail(order))

(***************************************************************************)
(* IssuesToTasks                                                           *)
(***************************************************************************)
\* onHoldIssues: the refs with Scheduling Status "On Hold" and the drafts
OnHoldIssues(iss) ==
    {ref \in DOMAIN iss :
        iss[ref].SchedulingStatus = "On Hold" \/ iss[ref].IsDraft}

\* DepStep without the skip of closed blockers
DepStepKeepingClosed(acc, blocker, iss, onHold) ==
    LET depID == DepID(blocker.Owner, blocker.Repo, blocker.Number)
        issueKey == IssueKey(blocker.Owner, blocker.Repo, blocker.Number)
    IN  IF issueKey \notin DOMAIN iss
        THEN [acc EXCEPT !.missingDeps = Append(@, depID)]
        ELSE IF issueKey \in onHold
        THEN [acc EXCEPT !.onHoldDeps = Append(@, depID)]
        ELSE [acc EXCEPT !.dependsOn = Append(@, depID)]

\* DepStep with the on-hold test ahead of the closed test
DepStepOnHoldFirst(acc, blocker, iss, onHold) ==
    LET depID == DepID(blocker.Owner, blocker.Repo, blocker.Number)
        issueKey == IssueKey(blocker.Owner, blocker.Repo, blocker.Number)
    IN  IF issueKey \notin DOMAIN iss
        THEN [acc EXCEPT !.missingDeps = Append(@, depID)]
        ELSE IF issueKey \in onHold
        THEN [acc EXCEPT !.onHoldDeps = Append(@, depID)]
        ELSE IF EqualFold(iss[issueKey].State, "closed") THEN acc
        ELSE [acc EXCEPT !.dependsOn = Append(@, depID)]

\* body of the loop over iwp.BlockedBy: acc is [dependsOn, missingDeps,
\* onHoldDeps]
DepStep(acc, blocker, iss, onHold) ==
    LET depID == DepID(blocker.Owner, blocker.Repo, blocker.Number)
        issueKey == IssueKey(blocker.Owner, blocker.Repo, blocker.Number)
    IN  IF issueKey \notin DOMAIN iss
        THEN [acc EXCEPT !.missingDeps = Append(@, depID)]
        ELSE IF EqualFold(iss[issueKey].State, "closed") THEN acc
        ELSE IF issueKey \in onHold
        THEN [acc EXCEPT !.onHoldDeps = Append(@, depID)]
        ELSE [acc EXCEPT !.dependsOn = Append(@, depID)]

RECURSIVE Deps(_, _, _, _)
Deps(blockers, iss, onHold, acc) ==
    IF blockers = <<>> THEN acc
    ELSE Deps(Tail(blockers), iss, onHold,
              DepStep(acc, Head(blockers), iss, onHold))

(***************************************************************************)
(* IssuesToTasks: the ordering of the packages                             *)
(***************************************************************************)
\* a milestone title is the sequence of its characters
IsDigit(c) == c \in {"0", "1", "2", "3", "4", "5", "6", "7", "8", "9"}

DigitValue(c) ==
    CASE c = "0" -> 0 [] c = "1" -> 1 [] c = "2" -> 2 [] c = "3" -> 3
      [] c = "4" -> 4 [] c = "5" -> 5 [] c = "6" -> 6 [] c = "7" -> 7
      [] c = "8" -> 8 [] c = "9" -> 9

\* the end of the longest run of digits of s that starts at i (i - 1: none)
RECURSIVE DigitRunEnd(_, _)
DigitRunEnd(s, i) ==
    IF i <= Len(s) /\ IsDigit(s[i]) THEN DigitRunEnd(s, i + 1) ELSE i - 1

\* strconv.Atoi of the digits s[i..j]
RECURSIVE Atoi(_, _, _)
Atoi(s, i, j) ==
    IF j < i THEN 0 ELSE Atoi(s, i, j - 1) * 10 + DigitValue(s[j])

\* the match of v?(\d+)\.(\d+)\.(\d+), case folded, that starts at i
MatchAt(s, i) ==
    LET a == IF i <= Len(s) /\ s[i] \in {"v", "V"} THEN i + 1 ELSE i
        e1 == DigitRunEnd(s, a)
        e2 == DigitRunEnd(s, e1 + 2)
        e3 == DigitRunEnd(s, e2 + 2)
        ok == /\ e1 >= a
              /\ e1 + 1 <= Len(s) /\ s[e1 + 1] = "."
              /\ e2 >= e1 + 2
              /\ e2 + 1 <= Len(s) /\ s[e2 + 1] = "."
              /\ e3 >= e2 + 2
    IN  IF ok
        THEN [ok |-> TRUE, major |-> Atoi(s, a, e1),
              minor |-> Atoi(s, e1 + 2, e2), patch |-> Atoi(s, e2 + 2, e3)]
        ELSE [ok |-> FALSE, major |-> 0, minor |-> 0, patch |-> 0]

\* FindStringSubmatch: the leftmost match
parseSemver(s) ==
    LET starts == {i \in 1..Len(s) : MatchAt(s, i).ok}
    IN  IF starts = {} THEN MatchAt(s, Len(s) + 1)
        ELSE MatchAt(s, CHOOSE i \in starts : \A j \in starts : i <= j)

compareSemver(a, b) ==
    IF a.major /= b.major THEN (IF a.major < b.major THEN -1 ELSE 1)
    ELSE IF a.minor /= b.minor THEN (IF a.minor < b.minor THEN -1 ELSE 1)
    ELSE IF a.patch /= b.patch THEN (IF a.patch < b.patch THEN -1 ELSE 1)
    ELSE 0

\* &packageInfo{id: pkgID, firstOrder: i} with the parsed version
NewPackageInfo(pkgID, i) ==
    LET sv == parseSemver(pkgID)
    IN  [id |-> pkgID, firstOrder |-> i, hasSemver |-> sv.ok, semver |-> sv,
         hasDueDate |-> FALSE, dueDate |-> 0]

\* body of the loop that builds packageInfos; i is the index from 0
PackageInfoStep(infos, i, iwp) ==
    LET pkgID == iwp.Milestone
    IN  IF pkgID = <<>> THEN infos
        ELSE
          LET info == IF pkgID \in DOMAIN infos THEN infos[pkgID]
                      ELSE NewPackageInfo(pkgID, i)
              dated ==
                  IF /\ iwp.MilestoneDueDate /= Nil
                     /\ \/ ~info.hasDueDate
                        \/ iwp.MilestoneDueDate < info.dueDate
                  THEN [info EXCEPT !.hasDueDate = TRUE,
                                    !.dueDate = iwp.MilestoneDueDate]
                  ELSE info
          IN  [k \in DOMAIN infos \cup {pkgID} |->
                  IF k = pkgID THEN dated ELSE infos[k]]

RECURSIVE PackageInfosFrom(_, _, _, _)
PackageInfosFrom(sorted, iss, i, infos) ==
    IF i > Len(sorted) THEN infos
    ELSE PackageInfosFrom(sorted, iss, i + 1,
                          PackageInfoStep(infos, i - 1, iss[sorted[i]]))

PackageInfos(sorted, iss) ==
    PackageInfosFrom(sorted, iss, 1, [k \in {} |-> {}])

\* PackageLess that never looks at the versions
PackageLessWithoutSemver(a, b) ==
    IF a.hasDueDate /= b.hasDueDate THEN a.hasDueDate
    ELSE IF a.hasDueDate /\ b.hasDueDate /\ a.dueDate /= b.dueDate
    THEN a.dueDate < b.dueDate
    ELSE a.firstOrder < b.firstOrder

\* the less function of the sort of orderedPackages
PackageLess(a, b) ==
    IF a.hasDueDate /= b.hasDueDate THEN a.hasDueDate
    ELSE IF a.hasDueDate /\ b.hasDueDate /\ a.dueDate /= b.dueDate
    THEN a.dueDate < b.dueDate
    ELSE IF a.hasSemver /\ b.hasSemver /\ compareSemver(a.semver, b.semver) /= 0
    THEN compareSemver(a.semver, b.semver) < 0
    ELSE IF a.hasSemver /= b.hasSemver THEN a.hasSemver
    ELSE a.firstOrder < b.firstOrder

\* packageOrder: the index from 0 of each package in orderedPackages
PackageOrderMap(ordered) ==
    [id \in {ordered[i] : i \in 1..Len(ordered)} |->
        (CHOOSE i \in 1..Len(ordered) : ordered[i] = id) - 1]

\* task.PackageOrder
PackageOrderOf(iwp, packageOrder) ==
    LET unpackagedOrder == Cardinality(DOMAIN packageOrder)
    IN  IF iwp.Milestone = <<>> THEN unpackagedOrder
        ELSE IF iwp.Milestone \in DOMAIN packageOrder
        THEN packageOrder[iwp.Milestone]
        ELSE unpackagedOrder

(***************************************************************************)
(* IssuesToTasks: the tasks and their diagnostics                          *)
(***************************************************************************)
\* TaskOf with the default estimates given to closed items too
TaskOfDefaultingDone(ref, iwp, deps, order) ==
    LET defaulted == iwp.LowEstimate = Nil /\ iwp.HighEstimate = Nil
    IN  [ID |-> TaskID(iwp),
         Name |-> iwp.Title,
         Ref |-> <<ref>>,
         Done |-> EqualFold(iwp.State, "closed"),
         EstimateLow |-> IF defaulted THEN 1
                         ELSE IF iwp.LowEstimate /= Nil
                         THEN iwp.LowEstimate ELSE 0,
         EstimateHigh |-> IF defaulted THEN 4
                          ELSE IF iwp.HighEstimate /= Nil
                          THEN iwp.HighEstimate ELSE 0,
         User |-> IF iwp.Assignee /= "" THEN iwp.Assignee ELSE "unassigned",
         OnHold |-> iwp.IsDraft \/ iwp.SchedulingStatus = "On Hold",
         PackageID |-> iwp.Milestone,
         PackageOrder |-> order,
         DependsOn |-> deps.dependsOn]

\* the planner.Task of one item; a float64 left unset is 0
TaskOf(ref, iwp, deps, order) ==
    LET done == EqualFold(iwp.State, "closed")
        defaulted == iwp.LowEstimate = Nil /\ iwp.HighEstimate = Nil /\ ~done
    IN  [ID |-> TaskID(iwp),
         Name |-> iwp.Title,
         Ref |-> <<ref>>,
         Done |-> done,
         EstimateLow |-> IF defaulted THEN 1
                         ELSE IF iwp.LowEstimate /= Nil
                         THEN iwp.LowEstimate ELSE 0,
         EstimateHigh |-> IF defaulted THEN 4
                          ELSE IF iwp.HighEstimate /= Nil
                          THEN iwp.HighEstimate ELSE 0,
         User |-> IF iwp.Assignee /= "" THEN iwp.Assignee ELSE "unassigned",
         OnHold |-> iwp.IsDraft \/ iwp.SchedulingStatus = "On Hold",
         PackageID |-> iwp.Milestone,
         PackageOrder |-> order,
         DependsOn |-> deps.dependsOn]

\* DependencyIssues with one missing_dependency diagnostic for each edge
DependencyIssuesPerEdge(ref, iwp, deps) ==
    [e \in 1..Len(deps.missingDeps) |->
        SchedulingIssue(ref, iwp, "missing_dependency",
                        <<deps.missingDeps[e]>>)]
    \o (IF Len(deps.onHoldDeps) > 0
        THEN <<SchedulingIssue(ref, iwp, "onhold_dependency",
                               deps.onHoldDeps)>>
        ELSE <<>>)
    \o (IF iwp.InaccessibleBlockers > 0
        THEN <<SchedulingIssue(ref, iwp, "inaccessible_dependency",
                  <<<<iwp.InaccessibleBlockers,
                      "blocker(s) from inaccessible repositories">>>>)>>
        ELSE <<>>)

\* the diagnostics of the dependencies of one item
DependencyIssues(ref, iwp, deps) ==
    (IF Len(deps.missingDeps) > 0
     THEN <<SchedulingIssue(ref, iwp, "missing_dependency",
                            deps.missingDeps)>>
     ELSE <<>>)
    \o (IF Len(deps.onHoldDeps) > 0
        THEN <<SchedulingIssue(ref, iwp, "onhold_dependency",
                               deps.onHoldDeps)>>
        ELSE <<>>)
    \o (IF iwp.InaccessibleBlockers > 0
        THEN <<SchedulingIssue(ref, iwp, "inaccessible_dependency",
                  <<<<iwp.InaccessibleBlockers,
                      "blocker(s) from inaccessible repositories">>>>)>>
        ELSE <<>>)

\* EstimateIssues with high <= low taken as invalid
EstimateIssuesNotStrict(ref, iwp) ==
    LET missingEstimates ==
            (IF iwp.LowEstimate = Nil THEN <<"Low Estimate">> ELSE <<>>)
            \o (IF iwp.HighEstimate = Nil THEN <<"High Estimate">> ELSE <<>>)
    IN  (IF Len(missingEstimates) > 0
         THEN <<SchedulingIssue(ref, iwp, "missing_estimate",
                                missingEstimates)>>
         ELSE <<>>)
        \o (IF /\ iwp.LowEstimate /= Nil
               /\ iwp.HighEstimate /= Nil
               /\ iwp.HighEstimate <= iwp.LowEstimate
            THEN <<SchedulingIssue(ref, iwp, "invalid_estimate",
                      <<<<"High Estimate", iwp.HighEstimate,
                          "Low Estimate", iwp.LowEstimate>>>>)>>
            ELSE <<>>)

\* the diagnostics of the estimates of one item
EstimateIssues(ref, iwp) ==
    LET missingEstimates ==
            (IF iwp.LowEstimate = Nil THEN <<"Low Estimate">> ELSE <<>>)
            \o (IF iwp.HighEstimate = Nil THEN <<"High Estimate">> ELSE <<>>)
    IN  (IF Len(missingEstimates) > 0
         THEN <<SchedulingIssue(ref, iwp, "missing_estimate",
                                missingEstimates)>>
         ELSE <<>>)
        \o (IF /\ iwp.LowEstimate /= Nil
               /\ iwp.HighEstimate /= Nil
               /\ iwp.HighEstimate < iwp.LowEstimate
            THEN <<SchedulingIssue(ref, iwp, "invalid_estimate",
                      <<<<"High Estimate", iwp.HighEstimate,
                          "Low Estimate", iwp.LowEstimate>>>>)>>
            ELSE <<>>)

\* IssuesOf without the test of task.OnHold and task.Done
IssuesOfAnyTask(ref, iwp, deps, task) ==
    DependencyIssues(ref, iwp, deps) \o EstimateIssues(ref, iwp)

\* the SchedulingIssues recorded for one item, in the order of the appends
IssuesOf(ref, iwp, deps, task) ==
    IF task.OnHold \/ task.Done THEN <<>>
    ELSE DependencyIssues(ref, iwp, deps) \o EstimateIssues(ref, iwp)

\* body of the loop over sortedIssues: acc is [tasks, schedIssues]
ConvertStep(acc, ref, iss, onHold, packageOrder) ==
    LET iwp == iss[ref]
        deps == Deps(iwp.BlockedBy, iss, onHold,
                     [dependsOn |-> <<>>, missingDeps |-> <<>>,
                      onHoldDeps |-> <<>>])
        task == TaskOf(ref, iwp, deps, PackageOrderOf(iwp, packageOrder))
    IN  [tasks |-> Append(acc.tasks, task),
         schedIssues |-> acc.schedIssues \o IssuesOf(ref, iwp, deps, task)]

RECURSIVE Convert(_, _, _, _, _)
Convert(sorted, iss, onHold, packageOrder, acc) ==
    IF sorted = <<>> THEN acc
    ELSE Convert(Tail(sorted), iss, onHold, packageOrder,
                 ConvertStep(acc, Head(sorted), iss, onHold, packageOrder))

\* sorted is sortedIssues, the refs of the store after sort.Slice by Order;
\* ordered is orderedPackages, the package ids after sort.Slice
IssuesToTasks(iss, sorted, ordered) ==
    Convert(sorted, iss, OnHoldIssues(iss), PackageOrderMap(ordered),
            [tasks |-> <<>>, schedIssues |-> <<>>])

(***************************************************************************)
(* PrivacyFilter                                                           *)
(*                                                                         *)
(* The strings the filter builds, compares and parses are sequences of     *)
(* one-character strings.  An index is a position from 1; 0 is the -1 of   *)
(* strings.Index and strings.LastIndex.                                    *)
(***************************************************************************)
\* the text "[private]"
PrivateTag == <<"[", "p", "r", "i", "v", "a", "t", "e", "]">>

DigitChars == <<"0", "1", "2", "3", "4", "5", "6", "7", "8", "9">>

\* the %d verb of fmt.Sprintf
RECURSIVE FormatInt(_)
FormatInt(n) ==
    IF n < 0 THEN <<"-">> \o FormatInt(0 - n)
    ELSE IF n < Len(DigitChars) THEN <<DigitChars[n + 1]>>
    ELSE FormatInt(n \div Len(DigitChars))
             \o <<DigitChars[(n % Len(DigitChars)) + 1]>>

\* strconv.Atoi: an optional sign, then one digit or more
StrconvAtoi(s) ==
    LET signed == s /= <<>> /\ s[1] \in {"+", "-"}
        digits == IF signed THEN Tail(s) ELSE s
        ok == digits /= <<>> /\ \A i \in 1..Len(digits) : IsDigit(digits[i])
        magnitude == IF ok THEN Atoi(digits, 1, Len(digits)) ELSE 0
    IN  [err |-> ~ok,
         num |-> IF signed /\ s[1] = "-" THEN 0 - magnitude ELSE magnitude]

\* strings.Index(s, c)
Index(s, c) ==
    IF \E i \in 1..Len(s) : s[i] = c
    THEN CHOOSE i \in 1..Len(s) :
             s[i] = c /\ \A j \in 1..(i - 1) : s[j] /= c
    ELSE 0

\* strings.LastIndex(s, c)
LastIndex(s, c) ==
    IF \E i \in 1..Len(s) : s[i] = c
    THEN CHOOSE i \in 1..Len(s) :
             s[i] = c /\ \A j \in (i + 1)..Len(s) : s[j] /= c
    ELSE 0

\* fmt.Sprintf("%s/%s", owner, repo)
RepoKey(owner, repo) == owner \o <<"/">> \o repo

NewPrivacyFilter(currentRepo, iss) ==
    [currentRepo |-> currentRepo,
     privateRepos |-> {RepoKey(iss[ref].Owner, iss[ref].Repo) :
                          ref \in {r \in DOMAIN iss : iss[r].IsPrivate}}]

\* ShouldRedact that forgets the current repository
ShouldRedactCurrentToo(pf, owner, repo) ==
    RepoKey(owner, repo) \in pf.privateRepos

ShouldRedact(pf, owner, repo) ==
    LET key == RepoKey(owner, repo)
    IN  key \in pf.privateRepos /\ key /= pf.currentRepo

RedactRepo(pf, owner, repo) ==
    IF ShouldRedact(pf, owner, repo) THEN PrivateTag
    ELSE RepoKey(owner, repo)

RedactRef(pf, owner, repo, issueNum) ==
    IF ShouldRedact(pf, owner, repo)
    THEN PrivateTag \o <<" ">> \o <<"#">> \o FormatInt(issueNum)
    ELSE RepoKey(owner, repo) \o <<" ">> \o <<"#">> \o FormatInt(issueNum)

RedactDepID(pf, depID) ==
    LET hashIdx == LastIndex(depID, "#")
        parsed == StrconvAtoi(SubSeq(depID, hashIdx + 1, Len(depID)))
        ownerRepo == SubSeq(depID, 1, hashIdx - 1)
        slashIdx == Index(ownerRepo, "/")
        owner == SubSeq(ownerRepo, 1, slashIdx - 1)
        repo == SubSeq(ownerRepo, slashIdx + 1, Len(ownerRepo))
    IN  IF hashIdx = 0 THEN depID
        ELSE IF parsed.err THEN depID
        ELSE IF slashIdx = 0 THEN depID
        ELSE IF ShouldRedact(pf, owner, repo)
             THEN PrivateTag \o <<"#">> \o FormatInt(parsed.num)
        ELSE depID

\* RedactTitle that lets the title through
RedactTitleShown(pf, owner, repo, title) == title

RedactTitle(pf, owner, repo, title) ==
    IF ShouldRedact(pf, owner, repo) THEN "" ELSE title

\* RedactSchedulingIssue that redacts the details of its argument in place
RedactSchedulingIssueInPlace(pf, si) ==
    LET redactedCopy ==
            [si EXCEPT !.Details = [i \in 1..Len(si.Details) |->
                                       RedactDepID(pf, si.Details[i])]]
    IN  [si |-> redactedCopy, redacted |-> redactedCopy]

\* si is the record of the caller after the call, redacted what is returned
RedactSchedulingIssue(pf, si) ==
    [si |-> si,
     redacted |-> [si EXCEPT !.Details = [i \in 1..Len(si.Details) |->
                                             RedactDepID(pf, si.Details[i])]]]

(***************************************************************************)
(* The scheduler comment of an issue                                       *)
(*                                                                         *)
(* The body of a comment is the sequence of its parts; the marker is one   *)
(* part.  A comment is [id, body].                                         *)
(***************************************************************************)
SchedulingCommentMarker == "<!-- p2-scheduler-comment -->"

FormatSchedulingComment(si) ==
    <<SchedulingCommentMarker, "Scheduling Notice", si.Reason, si.Details>>

\* strings.HasPrefix(body, SchedulingCommentMarker)
HasMarkerPrefix(body) == body /= <<>> /\ body[1] = SchedulingCommentMarker

\* FindSchedulingComment that finds no comment
FindNoSchedulingComment(listed, listOK) ==
    [id |-> 0, err |-> ~listOK]

\* listed is what GetIssueComments returns when it succeeds
FindSchedulingComment(listed, listOK) ==
    IF ~listOK THEN [id |-> 0, err |-> TRUE]
    ELSE IF \E i \in 1..Len(listed) : HasMarkerPrefix(listed[i].body)
         THEN LET first == CHOOSE i \in 1..Len(listed) :
                               /\ HasMarkerPrefix(listed[i].body)
                               /\ \A j \in 1..(i - 1) :
                                     ~HasMarkerPrefix(listed[j].body)
              IN  [id |-> listed[first].id, err |-> FALSE]
    ELSE [id |-> 0, err |-> FALSE]

\* the id the service gives to a new comment
NewCommentID(listed) ==
    IF listed = <<>> THEN 1
    ELSE 1 + (CHOOSE m \in {listed[i].id : i \in 1..Len(listed)} :
                  \A i \in 1..Len(listed) : listed[i].id <= m)

\* the outcome of an operation: the calls made, the comments, the error
CommentOutcome(calls, listed, err) ==
    [calls |-> calls, comments |-> listed, err |-> err]

PostOrUpdateSchedulingComment(listed, si, listOK, writeOK) ==
    LET found == FindSchedulingComment(listed, listOK)
        body == FormatSchedulingComment(si)
    IN  IF found.err THEN CommentOutcome(<<>>, listed, TRUE)
        ELSE IF found.id > 0
             THEN CommentOutcome(
                      <<[op |-> "UpdateIssueComment", id |-> found.id,
                         ok |-> writeOK]>>,
                      IF writeOK
                      THEN [i \in 1..Len(listed) |->
                               IF listed[i].id = found.id
                               THEN [listed[i] EXCEPT !.body = body]
                               ELSE listed[i]]
                      ELSE listed,
                      ~writeOK)
        ELSE CommentOutcome(
                 <<[op |-> "CreateIssueComment", id |-> 0, ok |-> writeOK]>>,
                 IF writeOK
                 THEN Append(listed, [id |-> NewCommentID(listed),
                                      body |-> body])
                 ELSE listed,
                 ~writeOK)

\* the list without the comments of the given id
RECURSIVE WithoutComment(_, _)
WithoutComment(listed, id) ==
    IF listed = <<>> THEN <<>>
    ELSE IF Head(listed).id = id THEN WithoutComment(Tail(listed), id)
    ELSE <<Head(listed)>> \o WithoutComment(Tail(listed), id)

DeleteSchedulingComment(listed, listOK, writeOK) ==
    LET found == FindSchedulingComment(listed, listOK)
    IN  IF found.err THEN CommentOutcome(<<>>, listed, TRUE)
        ELSE IF found.id = 0 THEN CommentOutcome(<<>>, listed, FALSE)
        ELSE CommentOutcome(
                 <<[op |-> "DeleteIssueComment", id |-> found.id,
                    ok |-> writeOK]>>,
                 IF writeOK THEN WithoutComment(listed, found.id)
                 ELSE listed,
                 ~writeOK)

(***************************************************************************)
(* The store a run starts from                                             *)
(***************************************************************************)
\* (owner, repo, number) and project item id of the items of the project:
\* two issues of different repositories with the same number, and a draft
IdentA == [Owner |-> "ownerA", Repo |-> "repo", IssueNum |-> 2,
           ItemID |-> "item-1", IsDraft |-> FALSE, Title |-> "Task A"]
IdentB == [Owner |-> "ownerB", Repo |-> "repo", IssueNum |-> 2,
           ItemID |-> "item-2", IsDraft |-> FALSE, Title |-> "Task B"]
IdentD == [Owner |-> "", Repo |-> "", IssueNum |-> 0,
           ItemID |-> "item-3", IsDraft |-> TRUE, Title |-> "Draft D"]

\* a second issue of the repository of IdentA
IdentC == [Owner |-> "ownerA", Repo |-> "repo", IssueNum |-> 3,
           ItemID |-> "item-4", IsDraft |-> FALSE, Title |-> "Task C"]

AllFields == DateFields \cup EstimateFields

\* the IssueWithProject FetchProjectItems builds from one project item
FetchItem(id, position, state, status, project, low, high, es, ec, c98) ==
    [Owner |-> id.Owner, Repo |-> id.Repo, IssueNum |-> id.IssueNum,
     Title |-> id.Title, State |-> state, Project |-> project,
     LowEstimate |-> low, HighEstimate |-> high, Order |-> position,
     SchedulingStatus |-> status,
     HasSchedulingDates |-> HasDates(es, ec, c98),
     ExpectedStart |-> es, ExpectedCompletion |-> ec, Completion98 |-> c98,
     BlockedBy |-> <<>>, Blocking |-> <<>>, InaccessibleBlockers |-> 0,
     Assignee |-> "", Milestone |-> <<>>, MilestoneDueDate |-> Nil,
     DueDate |-> Nil, IsPrivate |-> FALSE,
     IsDraft |-> id.IsDraft, ProjectItemID |-> id.ItemID]

\* the store: every item filed under its reference key
StoreOf(items) == [k \in {RefOf(i) : i \in items} |->
                     CHOOSE i \in items : RefOf(i) = k]

\* a custom field holds a value only if the project has the field
FieldsFit(project, low, high) ==
    \/ project = NoProject
    \/ EstimateFields \subseteq project.FieldIDs
    \/ low = Nil /\ high = Nil

\* projectFields: nil, or the field ids of the project, shared by its items
ProjectFields == {<<>>, <<AllFields>>, <<DateFields>>}

ProjectOf(id, projectFields) ==
    IF projectFields = <<>> THEN NoProject
    ELSE ProjectInfo(id.ItemID, projectFields[1])

IssueStates == {"open", "closed", "CLOSED"}
StatusValues == {"", "On Hold"}
Day1 == TicksPerDay
StoredDates == {Nil} \cup {d * TicksPerDay : d \in 1..MaxStoredDay}
ProposedDates == 0..MaxTime

Bar(id, name, isPackage, es, mean, e98) ==
    [ID |-> id, Name |-> name, IsPackage |-> isPackage,
     ExpStartDate |-> es, MeanDate |-> mean, End98Date |-> e98]

\* a package entry and the entry of a task that is not in the store
PackageBar == Bar(<<"v1.0.0">>, "v1.0.0", TRUE, Day1, Day1, MaxTime)
StrayBar == Bar(DepID("ownerA", "repo", 1), "Task 1", FALSE,
                Day1, Day1, MaxTime)

\* the scheduler output: at most one entry per task, in either order
BarSeqs(x, y) ==
    {<<PackageBar>> \o x \o y \o <<StrayBar>>,
     <<PackageBar>> \o y \o x \o <<StrayBar>>}

\* items in every terminal and flag combination, with coarse dates
TerminalItems(pf) ==
    {i \in {FetchItem(IdentA, 0, st, ss, ProjectOf(IdentA, pf), lo, hi,
                      d, d, d) :
              st \in IssueStates, ss \in StatusValues,
              lo \in {Nil, 0}, hi \in {Nil, 4}, d \in {Nil, Day1}} :
        FieldsFit(i.Project, i.LowEstimate, i.HighEstimate)}

OtherItems(pf) ==
    {FetchItem(IdentB, 1, "open", "", ProjectOf(IdentB, pf),
               Nil, Nil, Nil, Nil, Nil)}
    \cup
    {FetchItem(IdentB, 1, st, ss, ProjectOf(IdentB, pf),
               Nil, Nil, Day1, Day1, Day1) :
        st \in {"open", "closed"}, ss \in StatusValues}
    \cup
    {FetchItem(IdentD, 1, "", ss, ProjectOf(IdentD, pf),
               Nil, Nil, Day1, Day1, Day1) : ss \in StatusValues}

\* active items with every combination of recorded dates
DatedItems ==
    {FetchItem(IdentA, 0, "open", "", ProjectInfo(IdentA.ItemID, AllFields),
               0, 4, es, ec, c98) :
        es \in StoredDates, ec \in StoredDates, c98 \in StoredDates}

ClosedB == FetchItem(IdentB, 1, "closed", "",
                     ProjectInfo(IdentB.ItemID, AllFields),
                     Nil, Nil, Day1, Day1, Day1)

BarsOf(i, dates) ==
    {<<>>} \cup {<<Bar(TaskID(i), i.Title, FALSE, t, t, t)>> : t \in dates}

Flaggable(items) == {RefOf(i) : i \in {j \in items : ~j.IsDraft}}

\* inputs that vary the state, the status and the flags of the items
TerminalInputs ==
    \E pf \in ProjectFields : \E a \in TerminalItems(pf), o \in OtherItems(pf) :
        /\ issues = StoreOf({a, o})
        /\ \E x \in BarsOf(a, {Day1, MaxTime}), y \in BarsOf(o, {MaxTime}) :
              ganttData \in BarSeqs(x, y)
        /\ unschedulable \in SUBSET Flaggable({a, o})

\* inputs that vary the recorded and the proposed dates of an active item
DateInputs ==
    \E a \in DatedItems :
        /\ issues = StoreOf({a, ClosedB})
        /\ \E es \in ProposedDates, mean \in ProposedDates,
              e98 \in ProposedDates :
              ganttData = <<PackageBar,
                            Bar(TaskID(a), a.Title, FALSE, es, mean, e98),
                            StrayBar>>
        /\ unschedulable \in SUBSET {RefOf(a)}

Perms(S) ==
    {f \in [1..Cardinality(S) -> S] :
        \A i, j \in 1..Cardinality(S) : i /= j => f[i] /= f[j]}

Orders(iss) == [first : Perms(DOMAIN iss), lookup : Perms(DOMAIN iss),
                second : Perms(DOMAIN iss)]

(***************************************************************************)
(* The run                                                                 *)
(***************************************************************************)
\* nothing scheduled and nothing reported yet
NoReports == entries = <<>> /\ atRiskIssues = <<>>

\* no PrivacyFilter built and no redaction helper called
NoFilter == [currentRepo |-> <<>>, privateRepos |-> {}]

NoPrivacy == filter = NoFilter /\ subject = <<>> /\ redacted = <<>>

\* no call made to the tracking service, no run ended
NoService ==
    attempts = <<>> /\ result = "" /\ dryRun = FALSE /\ comments = <<>>

Init ==
    /\ TerminalInputs \/ DateInputs
    /\ updates = <<>>
    /\ pending = <<>>
    /\ runs = 1
    /\ pc = "scheduled"
    /\ tasks = <<>>
    /\ schedIssues = <<>>
    /\ NoReports
    /\ NoPrivacy
    /\ NoService

\* run: updates := PrepareUpdates(ganttData, allIssues, unschedulable)
PrepareUpdatesStep ==
    /\ pc = "scheduled"
    /\ \E ord \in Orders(issues) :
          updates' = PrepareUpdates(ganttData, issues, unschedulable, ord)
    /\ pending' = updates'
    /\ pc' = "prepared"
    /\ UNCHANGED <<issues, ganttData, unschedulable, runs, tasks, schedIssues,
                   reportVars, privacyVars,
                   serviceVars>>

\* run: one turn of the write loop
ApplyUpdateStep ==
    /\ pc = "prepared"
    /\ pending /= <<>>
    /\ issues' = ApplyUpdate(issues, Head(pending))
    /\ pending' = Tail(pending)
    /\ UNCHANGED <<ganttData, unschedulable, updates, runs, pc, tasks,
                   schedIssues, reportVars, privacyVars,
                   serviceVars>>

\* the tool runs again on the written items and the same scheduler output
NextRunStep ==
    /\ pc = "prepared"
    /\ pending = <<>>
    /\ runs < MaxRuns
    /\ runs' = runs + 1
    /\ pc' = "scheduled"
    /\ UNCHANGED <<issues, ganttData, unschedulable, updates, pending, tasks,
                   schedIssues, reportVars, privacyVars,
                   serviceVars>>

Next == PrepareUpdatesStep \/ ApplyUpdateStep \/ NextRunStep

Spec == Init /\ [][Next]_vars

(***************************************************************************)
(* The conversion of a fetched store                                       *)
(***************************************************************************)
RefTo(id) == IssueRef(id.Owner, id.Repo, id.IssueNum)

\* an issue that is not an item of the project
MissingRef == IssueRef("ownerA", "repo", 1)

\* the blocked-by edges of an item: up to MaxBlockers of the given targets
BlockerSeqs(targets) ==
    UNION {[1..n -> targets] : n \in 0..MaxBlockers}

WithBlockers(iwp, blockedBy, inaccessible) ==
    [iwp EXCEPT !.BlockedBy = blockedBy,
                !.InaccessibleBlockers = inaccessible]

\* the sort by Order is not stable: items of equal Order come in any order
SortedOrders(iss) ==
    {f \in Perms(DOMAIN iss) :
        \A i, j \in 1..Len(f) :
            i < j => ~(iss[f[j]].Order < iss[f[i]].Order)}

\* what sort.Slice can make of the packages: no later one less than an
\* earlier one
OrderedPackages(infos) ==
    {f \in Perms(DOMAIN infos) :
        \A i, j \in 1..Len(f) :
            i < j => ~PackageLess(infos[f[j]], infos[f[i]])}

\* stores that vary the blocked-by edges and the state of their targets
DependencyInputs ==
    \E stA \in {"open", "closed"}, ssA \in StatusValues,
       est \in {<<Nil, Nil>>, <<0, 4>>},
       blA \in BlockerSeqs({RefTo(IdentA), RefTo(IdentB), MissingRef}),
       inacc \in {0, 1},
       stB \in IssueStates, ssB \in StatusValues, posB \in {0, 1},
       blB \in {<<>>, <<RefTo(IdentA)>>},
       drafts \in SUBSET {FetchItem(IdentD, 1, "", "", NoProject,
                                    Nil, Nil, Nil, Nil, Nil)} :
       issues = StoreOf(
           {WithBlockers(FetchItem(IdentA, 0, stA, ssA, NoProject,
                                   est[1], est[2], Nil, Nil, Nil),
                         blA, inacc),
            WithBlockers(FetchItem(IdentB, posB, stB, ssB, NoProject,
                                   Nil, Nil, Nil, Nil, Nil), blB, 0)}
           \cup drafts)

\* stores that vary the estimates
EstimateInputs ==
    \E stA \in {"open", "closed"}, ssA \in StatusValues,
       lo \in {Nil, 0, 4, 8}, hi \in {Nil, 0, 4},
       blA \in {<<>>, <<MissingRef>>},
       stB \in {"open", "closed"},
       estB \in {<<Nil, Nil>>, <<0, 0>>, <<Nil, 4>>} :
       issues = StoreOf(
           {WithBlockers(FetchItem(IdentA, 0, stA, ssA, NoProject, lo, hi,
                                   Nil, Nil, Nil), blA, 0),
            FetchItem(IdentB, 1, stB, "", NoProject, estB[1], estB[2],
                      Nil, Nil, Nil)})

InitTasks ==
    /\ DependencyInputs \/ EstimateInputs
    /\ ganttData = <<>>
    /\ unschedulable = {}
    /\ updates = <<>>
    /\ pending = <<>>
    /\ runs = 1
    /\ pc = "fetched"
    /\ tasks = <<>>
    /\ schedIssues = <<>>
    /\ NoReports
    /\ NoPrivacy
    /\ NoService

\* milestone titles: "v1.10.0", "1.9.0", "S1", "v2.0" and "r1.9.0.1"
MilestoneTitles ==
    {<<"v", "1", ".", "1", "0", ".", "0">>,
     <<"1", ".", "9", ".", "0">>,
     <<"S", "1">>,
     <<"v", "2", ".", "0">>,
     <<"r", "1", ".", "9", ".", "0", ".", "1">>}

DueDates == {Nil} \cup {d * TicksPerDay : d \in 1..MaxDueDay}

WithMilestone(iwp, milestone, dueDate) ==
    [iwp EXCEPT !.Milestone = milestone,
                !.MilestoneDueDate = IF milestone = <<>> THEN Nil
                                     ELSE dueDate]

\* an open item without dates, at a position of the project
PlainItem(id, position) ==
    FetchItem(id, position, "open", "", NoProject, Nil, Nil, Nil, Nil, Nil)

\* stores that vary the milestones of the items and their due dates
InitPackages ==
    /\ \E mA \in MilestoneTitles \cup {<<>>}, dA \in DueDates,
          mB \in MilestoneTitles \cup {<<>>}, dB \in DueDates,
          mC \in MilestoneTitles \cup {<<>>}, dC \in DueDates,
          mD \in {<<>>, <<"S", "1">>} :
          issues = StoreOf({WithMilestone(PlainItem(IdentA, 0), mA, dA),
                            WithMilestone(PlainItem(IdentB, 1), mB, dB),
                            WithMilestone(PlainItem(IdentC, 1), mC, dC),
                            WithMilestone(PlainItem(IdentD, 2), mD, Nil)})
    /\ ganttData = <<>>
    /\ unschedulable = {}
    /\ updates = <<>>
    /\ pending = <<>>
    /\ runs = 1
    /\ pc = "fetched"
    /\ tasks = <<>>
    /\ schedIssues = <<>>
    /\ NoReports
    /\ NoPrivacy
    /\ NoService

\* run: tasks, users, schedIssues := IssuesToTasks(allIssues, privacy)
IssuesToTasksStep ==
    /\ pc = "fetched"
    /\ \E sorted \in SortedOrders(issues) :
          \E ordered \in OrderedPackages(PackageInfos(sorted, issues)) :
              LET converted == IssuesToTasks(issues, sorted, ordered)
              IN  /\ tasks' = converted.tasks
                  /\ schedIssues' = converted.schedIssues
    /\ pc' = "converted"
    /\ UNCHANGED <<issues, ganttData, unschedulable, updates, pending, runs,
                   reportVars, privacyVars,
                   serviceVars>>

NextTasks == IssuesToTasksStep

SpecTasks == InitTasks /\ [][NextTasks]_vars

SpecPackages == InitPackages /\ [][NextTasks]_vars

(***************************************************************************)
(* The end of the fetch: the reverse edges                                 *)
(***************************************************************************)
\* the edges the tracking service returns for an item: no edge twice
DistinctSeqs(targets) ==
    {f \in BlockerSeqs(targets) :
        \A i, j \in 1..Len(f) : i /= j => f[i] /= f[j]}

WithEdges(iwp, blockedBy, blocking) ==
    [iwp EXCEPT !.BlockedBy = blockedBy, !.Blocking = blocking]

InitReverse ==
    /\ \E blockingA \in DistinctSeqs({RefTo(IdentB), RefTo(IdentC),
                                       MissingRef}),
          blockedB \in DistinctSeqs({RefTo(IdentA), RefTo(IdentC)}),
          blockingB \in {<<>>, <<RefTo(IdentA)>>, <<RefTo(IdentC)>>},
          blockedC \in {<<>>, <<RefTo(IdentA)>>},
          blockingC \in {<<>>, <<RefTo(IdentB)>>, <<RefTo(IdentC)>>} :
          issues = StoreOf(
              {WithEdges(PlainItem(IdentA, 0), <<>>, blockingA),
               WithEdges(PlainItem(IdentB, 1), blockedB, blockingB),
               WithEdges(PlainItem(IdentC, 2), blockedC, blockingC)})
    /\ ganttData = <<>>
    /\ unschedulable = {}
    /\ updates = <<>>
    /\ pending = <<>>
    /\ runs = 1
    /\ pc = "loaded"
    /\ tasks = <<>>
    /\ schedIssues = <<>>
    /\ NoReports
    /\ NoPrivacy
    /\ NoService

\* FetchProjectItems: BuildReverseDependencies(allIssues)
BuildReverseDependenciesStep ==
    /\ pc = "loaded"
    /\ \E order \in Perms(DOMAIN issues) :
          issues' = BuildReverseDependencies(issues, order)
    /\ pc' = "fetched"
    /\ UNCHANGED <<ganttData, unschedulable, updates, pending, runs, tasks,
                   schedIssues, reportVars, privacyVars,
                   serviceVars>>

NextReverse == BuildReverseDependenciesStep

SpecReverse == InitReverse /\ [][NextReverse]_vars

(***************************************************************************)
(* The redaction of the logs                                               *)
(***************************************************************************)
\* an item of a repository of the owner o
RepoItem(repo, number) ==
    [Owner |-> <<"o">>, Repo |-> repo, IssueNum |-> number,
     ItemID |-> <<"item", repo>>, IsDraft |-> FALSE, Title |-> "Task"]

WithPrivacy(iwp, isPrivate) == [iwp EXCEPT !.IsPrivate = isPrivate]

\* the repository the run is for: one of the store, or none
CurrentRepos == {RepoKey(<<"o">>, <<"m">>), RepoKey(<<"o">>, <<"s">>), <<>>}

\* owners and repositories the helpers are asked about: those of the store,
\* an owner and a repository that are not in it
Owners == {<<"o">>, <<"x">>}

Repos == {<<"m">>, <<"s">>, <<"p">>, <<"u">>}

IssueNums == {0, 7, 42}

\* the dependency ids of the diagnostics
DepIDStrings ==
    {RepoKey(o, r) \o <<"#">> \o FormatInt(n) :
        o \in Owners, r \in Repos, n \in IssueNums}

\* other strings a detail or a caller can hold
OtherStrings ==
    {<<"n", "o">>,
     <<"o", "/", "s">>,
     <<"o", "/", "s", "#">>,
     <<"o", "/", "s", "#", "x">>,
     <<"o", "/", "s", "#", "1", " ">>,
     <<"o", "/", "s", " ", "#", "1">>,
     <<"o", "s", "#", "1">>,
     <<"#", "1">>,
     <<"o", "/", "s", "#", "+", "1">>,
     <<"o", "/", "s", "#", "-", "1">>,
     <<"o", "/", "s", "#", "0", "7">>,
     <<"o", "/", "s", "#", "1", "#", "2">>,
     <<"o", "/", "s", "#", "x", "#", "2">>,
     <<"o", "/", "s", "/", "t", "#", "1">>,
     <<"x", " ", "o", "/", "s", "#", "1">>,
     <<"/", "o", "/", "s", "#", "1">>,
     <<"D", "u", "e", ":", " ", "1">>}

InitPrivacy ==
    /\ \E m, s, p \in BOOLEAN :
          issues = StoreOf(
              {WithPrivacy(PlainItem(RepoItem(<<"m">>, 1), 0), m),
               WithPrivacy(PlainItem(RepoItem(<<"s">>, 2), 1), s),
               WithPrivacy(PlainItem(RepoItem(<<"p">>, 3), 2), p)})
    /\ ganttData = <<>>
    /\ unschedulable = {}
    /\ updates = <<>>
    /\ pending = <<>>
    /\ runs = 1
    /\ pc = "fetched"
    /\ tasks = <<>>
    /\ schedIssues = <<>>
    /\ NoReports
    /\ NoPrivacy
    /\ NoService

runVars == <<issues, ganttData, unschedulable, updates, pending, runs, tasks,
             schedIssues, reportVars, serviceVars>>

NewPrivacyFilterStep ==
    /\ pc = "fetched"
    /\ \E currentRepo \in CurrentRepos :
          filter' = NewPrivacyFilter(currentRepo, issues)
    /\ pc' = "filtered"
    /\ UNCHANGED <<runVars, subject, redacted>>

ShouldRedactStep ==
    /\ pc = "filtered"
    /\ \E owner \in Owners, repo \in Repos :
          /\ subject' = [op |-> "ShouldRedact", owner |-> owner,
                         repo |-> repo]
          /\ redacted' = ShouldRedact(filter, owner, repo)
    /\ UNCHANGED <<runVars, filter, pc>>

RedactRepoStep ==
    /\ pc = "filtered"
    /\ \E owner \in Owners, repo \in Repos :
          /\ subject' = [op |-> "RedactRepo", owner |-> owner, repo |-> repo]
          /\ redacted' = RedactRepo(filter, owner, repo)
    /\ UNCHANGED <<runVars, filter, pc>>

RedactRefStep ==
    /\ pc = "filtered"
    /\ \E owner \in Owners, repo \in Repos, issueNum \in IssueNums :
          /\ subject' = [op |-> "RedactRef", owner |-> owner, repo |-> repo,
                         issueNum |-> issueNum]
          /\ redacted' = RedactRef(filter, owner, repo, issueNum)
    /\ UNCHANGED <<runVars, filter, pc>>

RedactDepIDStep ==
    /\ pc = "filtered"
    /\ \E depID \in DepIDStrings \cup OtherStrings :
          /\ subject' = [op |-> "RedactDepID", depID |-> depID]
          /\ redacted' = RedactDepID(filter, depID)
    /\ UNCHANGED <<runVars, filter, pc>>

NextPrivacy ==
    \/ NewPrivacyFilterStep
    \/ ShouldRedactStep
    \/ RedactRepoStep
    \/ RedactRefStep
    \/ RedactDepIDStep

SpecPrivacy == InitPrivacy /\ [][NextPrivacy]_vars

(***************************************************************************)
(* The redaction of titles and diagnostics                                 *)
(***************************************************************************)
\* an item of a repository of the owner x
OtherOwnerItem(repo, number) ==
    [RepoItem(repo, number) EXCEPT !.Owner = <<"x">>]

Titles == {"Task", "Secret plan"}

\* the details of a diagnostic: dependency ids and the name of a field
DetailLists ==
    {<<>>,
     <<<<"L", "o", "w">>>>,
     <<<<"o", "/", "s", "#", "7">>>>,
     <<<<"x", "/", "p", "#", "7">>>>,
     <<<<"o", "/", "s", "#", "7">>, <<"x", "/", "p", "#", "4", "2">>>>,
     <<<<"o", "/", "m", "#", "7">>, <<"o", "/", "s", "#", "4", "2">>>>,
     <<<<"o", "/", "u", "#", "0">>, <<"x", "/", "p", "#", "0">>>>}

InitRedaction ==
    /\ \E m, s, p \in BOOLEAN :
          issues = StoreOf(
              {WithPrivacy(PlainItem(RepoItem(<<"m">>, 1), 0), m),
               WithPrivacy(PlainItem(RepoItem(<<"s">>, 2), 1), s),
               WithPrivacy(PlainItem(OtherOwnerItem(<<"p">>, 3), 2), p)})
    /\ ganttData = <<>>
    /\ unschedulable = {}
    /\ updates = <<>>
    /\ pending = <<>>
    /\ runs = 1
    /\ pc = "fetched"
    /\ tasks = <<>>
    /\ schedIssues = <<>>
    /\ NoReports
    /\ NoPrivacy
    /\ NoService

RedactTitleStep ==
    /\ pc = "filtered"
    /\ \E owner \in Owners, repo \in Repos, title \in Titles :
          /\ subject' = [op |-> "RedactTitle", owner |-> owner,
                         repo |-> repo, title |-> title]
          /\ redacted' = RedactTitle(filter, owner, repo, title)
    /\ UNCHANGED <<runVars, filter, pc>>

RedactSchedulingIssueStep ==
    /\ pc = "filtered"
    /\ \E details \in DetailLists :
          LET si == SchedulingIssue(RefOf(RepoItem(<<"m">>, 1)),
                                    RepoItem(<<"m">>, 1),
                                    "missing_dependency", details)
              out == RedactSchedulingIssue(filter, si)
          IN  /\ subject' = [op |-> "RedactSchedulingIssue", si |-> out.si,
                             before |-> si]
              /\ redacted' = out.redacted
    /\ UNCHANGED <<runVars, filter, pc>>

NextRedaction ==
    \/ NextPrivacy
    \/ RedactTitleStep
    \/ RedactSchedulingIssueStep

SpecRedaction == InitRedaction /\ [][NextRedaction]_vars

(***************************************************************************)
(* One run: convert, schedule, extract the cycles, diff, detect the risks  *)
(***************************************************************************)
OtherMissingRef == IssueRef("ownerB", "repo", 1)

WithDueDate(iwp, dueDate) == [iwp EXCEPT !.DueDate = dueDate]

InitPipeline ==
    /\ \E stA \in {"open", "closed"}, ssA \in StatusValues,
          est \in {<<Nil, Nil>>, <<0, 4>>},
          blA \in {<<>>, <<RefTo(IdentB)>>, <<MissingRef>>,
                   <<MissingRef, OtherMissingRef>>},
          dueA \in {Nil, Day1}, d \in {Nil, Day1},
          stB \in {"open", "closed"}, blB \in {<<>>, <<RefTo(IdentA)>>} :
          issues = StoreOf(
              {WithDueDate(
                   WithBlockers(
                       FetchItem(IdentA, 0, stA, ssA,
                                 ProjectInfo(IdentA.ItemID, AllFields),
                                 est[1], est[2], d, d, d), blA, 0), dueA),
               WithDueDate(
                   WithBlockers(
                       FetchItem(IdentB, 1, stB, "",
                                 ProjectInfo(IdentB.ItemID, AllFields),
                                 0, 4, Nil, Nil, Nil), blB, 0), Day1)})
    /\ ganttData = <<>>
    /\ unschedulable = {}
    /\ updates = <<>>
    /\ pending = <<>>
    /\ runs = 1
    /\ pc = "fetched"
    /\ tasks = <<>>
    /\ schedIssues = <<>>
    /\ NoReports
    /\ NoPrivacy
    /\ NoService

\* a planner.ScheduledEntry
Entry(id, name, isPackage, cycle) ==
    [ID |-> id, Name |-> name, IsPackage |-> isPackage, Cycle |-> cycle]

\* the cycle path the scheduler reports for a task
CyclePath(id) == <<id, StrayBar.ID, id>>

PackageEntry ==
    Entry(PackageBar.ID, PackageBar.Name, TRUE, CyclePath(PackageBar.ID))

StrayEntry == Entry(StrayBar.ID, StrayBar.Name, FALSE, CyclePath(StrayBar.ID))

\* the entries of the scheduler: one per task, some of them in a cycle
EntriesOf(taskList) ==
    {[n \in 1..Len(taskList) |->
         Entry(taskList[n].ID, taskList[n].Name, FALSE,
               IF n \in cyclic THEN CyclePath(taskList[n].ID) ELSE <<>>)] :
        cyclic \in SUBSET (1..Len(taskList))}

\* the bars of the scheduler: at most one per task, with its dates
BarsOfTasks(taskList) ==
    {<<PackageBar>> \o x \o y \o <<StrayBar>> :
        x \in {<<>>} \cup {<<Bar(taskList[1].ID, taskList[1].Name, FALSE,
                                 t, t, t)>> : t \in ProposedDates},
        y \in {<<>>, <<Bar(taskList[Len(taskList)].ID,
                           taskList[Len(taskList)].Name, FALSE,
                           MaxTime, MaxTime, MaxTime)>>}}

\* run: entries := planner.ScheduleWithUsers(tasks, users) and
\* ganttData := planner.ComputeGanttData(entries, ...)
ScheduleStep ==
    /\ pc = "converted"
    /\ \E es \in EntriesOf(tasks) :
          entries' = <<PackageEntry>> \o es \o <<StrayEntry>>
    /\ ganttData' \in BarsOfTasks(tasks)
    /\ pc' = "cycles"
    /\ UNCHANGED <<issues, unschedulable, updates, pending, runs, tasks,
                   schedIssues, atRiskIssues, privacyVars,
                   serviceVars>>

\* the refs that hold a SchedulingIssue
Unschedulable(list) == {list[d].IssueRef : d \in 1..Len(list)}

\* run: schedIssues = ExtractCycleIssues(entries, allIssues, schedIssues),
\* and the unschedulable set is built from the accumulated diagnostics
ExtractCycleIssuesStep ==
    /\ pc = "cycles"
    /\ \E order \in Perms(DOMAIN issues) :
          schedIssues' = ExtractCycleIssues(entries, issues, schedIssues,
                                            order)
    /\ unschedulable' = Unschedulable(schedIssues')
    /\ pc' = "scheduled"
    /\ UNCHANGED <<issues, ganttData, updates, pending, runs, tasks,
                   reportVars, privacyVars,
                   serviceVars>>

\* run: atRiskIssues := DetectAtRiskIssues(updates, allIssues)
DetectAtRiskIssuesStep ==
    /\ pc = "prepared"
    /\ atRiskIssues' = DetectAtRiskIssues(updates, issues)
    /\ pc' = "reported"
    /\ UNCHANGED <<issues, ganttData, unschedulable, updates, pending, runs,
                   tasks, schedIssues, entries, privacyVars,
                   serviceVars>>

NextPipeline ==
    \/ IssuesToTasksStep
    \/ ScheduleStep
    \/ ExtractCycleIssuesStep
    \/ PrepareUpdatesStep
    \/ DetectAtRiskIssuesStep

SpecPipeline == InitPipeline /\ [][NextPipeline]_vars

(***************************************************************************)
(* run, from the fetch to the last write                                   *)
(***************************************************************************)
\* the fields whose call fails during one ApplyUpdate
FailureSets == {{}} \cup {{f} : f \in AllFields} \cup {AllFields}

\* the items of the service: A in every state, B open with stale dates
ServiceStores ==
    {StoreOf({})}
    \cup
    {StoreOf({a, FetchItem(IdentB, 1, "open", "", ProjectOf(IdentB, pf),
                           Nil, Nil, Day1, Day1, Day1)}) :
        <<pf, a>> \in
            {<<f, i>> \in {<<AllFields>>, <<DateFields>>}
                          \X (TerminalItems(<<AllFields>>)
                              \cup TerminalItems(<<DateFields>>)) :
                /\ i.Project = ProjectOf(IdentA, f)
                /\ i.State \in {"open", "closed"}
                /\ (i.LowEstimate = Nil) = (i.HighEstimate = Nil)}}

\* what the scheduler can propose for the tasks of the store
ScheduleOutputs(iss) ==
    {<<PackageBar>> \o x \o y :
        x \in {<<>>, <<Bar(TaskID(IdentA), IdentA.Title, FALSE,
                           MaxTime, MaxTime, MaxTime)>>},
        y \in {<<Bar(TaskID(IdentB), IdentB.Title, FALSE,
                     0, MaxTime, MaxTime)>>,
               <<Bar(TaskID(IdentB), IdentB.Title, FALSE,
                     MaxTime, MaxTime, MaxTime)>>}}

InitRun ==
    /\ issues \in ServiceStores
    /\ unschedulable \in SUBSET {RefOf(IdentA)}
    /\ ganttData = <<>>
    /\ updates = <<>>
    /\ pending = <<>>
    /\ runs = 1
    /\ pc = "start"
    /\ tasks = <<>>
    /\ schedIssues = <<>>
    /\ NoReports
    /\ NoPrivacy
    /\ attempts = <<>>
    /\ result = ""
    /\ dryRun \in BOOLEAN
    /\ comments = <<>>

\* run: allIssues, err := fetch...; if err != nil { return err }
FetchStep ==
    /\ pc = "start"
    /\ \E fetched \in BOOLEAN :
          IF ~fetched THEN result' = "error" /\ pc' = "done"
          ELSE IF DOMAIN issues = {} THEN result' = "nil" /\ pc' = "done"
          ELSE result' = result /\ pc' = "fetched"
    /\ UNCHANGED <<issues, ganttData, unschedulable, updates, pending, runs,
                   tasks, schedIssues, reportVars, privacyVars, attempts,
                   dryRun, comments>>

\* run: tasks, users := issuesToTasks(allIssues)
ConvertRunStep ==
    /\ pc = "fetched"
    /\ \E sorted \in SortedOrders(issues) :
          \E ordered \in OrderedPackages(PackageInfos(sorted, issues)) :
              tasks' = IssuesToTasks(issues, sorted, ordered).tasks
    /\ IF tasks' = <<>> THEN result' = "nil" /\ pc' = "done"
       ELSE result' = result /\ pc' = "converted"
    /\ UNCHANGED <<issues, ganttData, unschedulable, updates, pending, runs,
                   schedIssues, reportVars, privacyVars, attempts, dryRun,
                   comments>>

\* run: ganttData, err := planner.ComputeGanttData(...)
ScheduleRunStep ==
    /\ pc = "converted"
    /\ \/ /\ result' = "error"
          /\ pc' = "done"
          /\ UNCHANGED ganttData
       \/ /\ ganttData' \in ScheduleOutputs(issues)
          /\ pc' = "scheduled"
          /\ UNCHANGED result
    /\ UNCHANGED <<issues, unschedulable, updates, pending, runs, tasks,
                   schedIssues, reportVars, privacyVars, attempts, dryRun,
                   comments>>

\* PrepareRunStep that goes on to the writes of a dry run
PrepareRunStepIgnoringDryRun ==
    /\ pc = "scheduled"
    /\ \E ord \in Orders(issues) :
          updates' = PrepareUpdates(ganttData, issues, unschedulable, ord)
    /\ pending' = updates'
    /\ IF updates' = <<>> THEN result' = "nil" /\ pc' = "done"
       ELSE result' = result /\ pc' = "writing"
    /\ UNCHANGED <<issues, ganttData, unschedulable, runs, tasks, schedIssues,
                   reportVars, privacyVars, attempts, dryRun, comments>>

\* run: the updates, the report of the changes and the dry-run exit
PrepareRunStep ==
    /\ pc = "scheduled"
    /\ \E ord \in Orders(issues) :
          updates' = PrepareUpdates(ganttData, issues, unschedulable, ord)
    /\ pending' = updates'
    /\ IF updates' = <<>> THEN result' = "nil" /\ pc' = "done"
       ELSE IF dryRun THEN result' = "nil" /\ pc' = "done"
       ELSE result' = result /\ pc' = "writing"
    /\ UNCHANGED <<issues, ganttData, unschedulable, runs, tasks, schedIssues,
                   reportVars, privacyVars, attempts, dryRun, comments>>

\* run: one turn of the write loop; an error of ApplyUpdate is logged
WriteStep ==
    /\ pc = "writing"
    /\ pending /= <<>>
    /\ \E failing \in FailureSets :
          LET applied == ApplyUpdateCalls(Head(pending), failing)
          IN  /\ attempts' = attempts \o applied.calls
              /\ issues' = ServeCalls(issues, applied.calls)
    /\ pending' = Tail(pending)
    /\ UNCHANGED <<ganttData, unschedulable, updates, runs, pc, tasks,
                   schedIssues, reportVars, privacyVars, result, dryRun,
                   comments>>

\* run: the end of the write loop, return nil
FinishStep ==
    /\ pc = "writing"
    /\ pending = <<>>
    /\ result' = "nil"
    /\ pc' = "done"
    /\ UNCHANGED <<issues, ganttData, unschedulable, updates, pending, runs,
                   tasks, schedIssues, reportVars, privacyVars, attempts,
                   dryRun, comments>>

NextRun ==
    \/ FetchStep
    \/ ConvertRunStep
    \/ ScheduleRunStep
    \/ PrepareRunStep
    \/ WriteStep
    \/ FinishStep

SpecRun == InitRun /\ [][NextRun]_vars

(***************************************************************************)
(* The comments of one issue under the two operations                      *)
(***************************************************************************)
\* the write calls after which the operations are no longer followed
MaxCalls == 3

\* a comment of a user, one that quotes the marker, one of the scheduler
CommentBodies ==
    {<<"text">>,
     <<"text", SchedulingCommentMarker>>,
     <<SchedulingCommentMarker, "Scheduling Notice", "cycle", <<>>>>}

\* the comments an issue starts with: at most one of the scheduler
CommentLists ==
    {<<>>} \cup
    {<<[id |-> 1, body |-> b]>> : b \in CommentBodies} \cup
    {<<[id |-> 1, body |-> b], [id |-> 2, body |-> c]>> :
        <<b, c>> \in {x \in CommentBodies \X CommentBodies :
                         ~(HasMarkerPrefix(x[1]) /\ HasMarkerPrefix(x[2]))}}

\* the diagnostics a comment is written for
CommentedIssues ==
    {SchedulingIssue(RefOf(IdentA), IdentA, reason, <<>>) :
        reason \in {"missing_estimate", "cycle"}}

InitComments ==
    /\ issues = StoreOf({PlainItem(IdentA, 0)})
    /\ ganttData = <<>>
    /\ unschedulable = {}
    /\ updates = <<>>
    /\ pending = <<>>
    /\ runs = 1
    /\ pc = "reported"
    /\ tasks = <<>>
    /\ schedIssues = <<>>
    /\ NoReports
    /\ NoPrivacy
    /\ attempts = <<>>
    /\ result = ""
    /\ dryRun = FALSE
    /\ comments \in CommentLists

PostOrUpdateSchedulingCommentStep ==
    /\ Len(attempts) < MaxCalls
    /\ \E si \in CommentedIssues, listOK \in BOOLEAN, writeOK \in BOOLEAN :
          LET out == PostOrUpdateSchedulingComment(comments, si, listOK,
                                                   writeOK)
          IN  /\ comments' = out.comments
              /\ attempts' = attempts \o out.calls
              /\ result' = IF out.err THEN "error" ELSE "nil"
              /\ subject' = [op |-> "PostOrUpdateSchedulingComment",
                             listed |-> listOK, before |-> comments,
                             calls |-> out.calls]
    /\ UNCHANGED <<issues, ganttData, unschedulable, updates, pending, runs,
                   pc, tasks, schedIssues, reportVars, filter, redacted,
                   dryRun>>

DeleteSchedulingCommentStep ==
    /\ Len(attempts) < MaxCalls
    /\ \E listOK \in BOOLEAN, writeOK \in BOOLEAN :
          LET out == DeleteSchedulingComment(comments, listOK, writeOK)
          IN  /\ comments' = out.comments
              /\ attempts' = attempts \o out.calls
              /\ result' = IF out.err THEN "error" ELSE "nil"
              /\ subject' = [op |-> "DeleteSchedulingComment",
                             listed |-> listOK, before |-> comments,
                             calls |-> out.calls]
    /\ UNCHANGED <<issues, ganttData, unschedulable, updates, pending, runs,
                   pc, tasks, schedIssues, reportVars, filter, redacted,
                   dryRun>>

NextComments ==
    PostOrUpdateSchedulingCommentStep \/ DeleteSchedulingCommentStep

SpecComments == InitComments /\ [][NextComments]_vars

(***************************************************************************)
(* Properties of the diff engine                                           *)
(***************************************************************************)
\* PrepareUpdates has just returned: issues is still the store it read
Fresh == pc = "prepared" /\ pending = updates

Linked(iwp) == iwp.Project /= NoProject

\* positions in the returned list of the DateUpdates written to an item
UpdatesFor(iwp, list) ==
    {n \in 1..Len(list) : list[n].Project.ItemID = iwp.ProjectItemID}

\* the non-package entries of the scheduler output for an item
BarsFor(iwp) ==
    {n \in 1..Len(ganttData) :
        ~ganttData[n].IsPackage /\ ganttData[n].ID = TaskID(iwp)}

HasEstimate(iwp) == iwp.LowEstimate /= Nil \/ iwp.HighEstimate /= Nil

\* the pass a DateUpdate comes from, read off its shape
PassOf(u) ==
    IF ~u.ClearDates THEN 3
    ELSE IF u.ClearReason = "unschedulable" THEN 2 ELSE 1

\* C1: when every DateUpdate of a run has been applied to the store as
\* ApplyUpdate applies it, a second PrepareUpdates over the same scheduler
\* output and the same unschedulable set returns no DateUpdate.
C1_SecondRunIsSilent ==
    (runs > 1 /\ pc = "prepared") => updates = <<>>

C3_ClosedBeatsUnschedulable ==
    Fresh =>
        \A k \in DOMAIN issues :
            (/\ Linked(issues[k])
             /\ isClosed(issues[k])
             /\ k \in unschedulable
             /\ (issues[k].HasSchedulingDates \/ HasEstimate(issues[k])))
            => /\ Cardinality(UpdatesFor(issues[k], updates)) = 1
               /\ \A n \in UpdatesFor(issues[k], updates) :
                     updates[n].ClearDates /\ updates[n].ClearReason = "closed"

\* C4: a project-linked closed WorkItem gets a clear with reason "closed"
\* exactly when it holds a computed date or an estimate, whether or not the
\* scheduler output has an entry for it.
C4_ClosedClearedIffDatesOrEstimates ==
    Fresh =>
        \A k \in DOMAIN issues :
            (Linked(issues[k]) /\ isClosed(issues[k]))
            => ((\E n \in UpdatesFor(issues[k], updates) :
                    updates[n].ClearDates /\ updates[n].ClearReason = "closed")
                <=> (issues[k].HasSchedulingDates \/ HasEstimate(issues[k])))

\* C5: a project-linked open WorkItem whose Scheduling Status is "On Hold"
\* gets exactly a clear with reason "on hold" when it holds a computed date
\* and no DateUpdate at all when it holds none, estimates or not, whether
\* or not the scheduler output has an entry for it.
C5_OnHoldClearedIffDates ==
    Fresh =>
        \A k \in DOMAIN issues :
            (Linked(issues[k]) /\ ~isClosed(issues[k]) /\ isOnHold(issues[k]))
            => IF issues[k].HasSchedulingDates
               THEN /\ Cardinality(UpdatesFor(issues[k], updates)) = 1
                    /\ \A n \in UpdatesFor(issues[k], updates) :
                          /\ updates[n].ClearDates
                          /\ updates[n].ClearReason = "on hold"
               ELSE UpdatesFor(issues[k], updates) = {}

\* an open on-hold item with both estimates, no date and an entry in the
\* scheduler output received no DateUpdate
C5_Witness ==
    /\ Fresh
    /\ \E k \in DOMAIN issues :
          /\ Linked(issues[k])
          /\ ~isClosed(issues[k])
          /\ isOnHold(issues[k])
          /\ issues[k].LowEstimate /= Nil
          /\ issues[k].HighEstimate /= Nil
          /\ ~issues[k].HasSchedulingDates
          /\ BarsFor(issues[k]) /= {}
          /\ UpdatesFor(issues[k], updates) = {}

\* C6: a project-linked WorkItem that is open, not on hold and flagged
\* unschedulable gets exactly one clear with reason "unschedulable" when it
\* holds a computed date and no DateUpdate otherwise: never a set-dates
\* write, even when the scheduler output has an entry with dates for it.
C6_UnschedulableNeverWritten ==
    Fresh =>
        \A k \in DOMAIN issues :
            (/\ Linked(issues[k])
             /\ ~isClosed(issues[k])
             /\ ~isOnHold(issues[k])
             /\ k \in unschedulable)
            => IF issues[k].HasSchedulingDates
               THEN /\ Cardinality(UpdatesFor(issues[k], updates)) = 1
                    /\ \A n \in UpdatesFor(issues[k], updates) :
                          /\ updates[n].ClearDates
                          /\ updates[n].ClearReason = "unschedulable"
               ELSE UpdatesFor(issues[k], updates) = {}

\* an active unschedulable item without dates, with an entry proposing
\* dates, received no DateUpdate
C6_Witness ==
    /\ Fresh
    /\ \E k \in DOMAIN issues :
          /\ Linked(issues[k])
          /\ ~isClosed(issues[k])
          /\ ~isOnHold(issues[k])
          /\ k \in unschedulable
          /\ ~issues[k].HasSchedulingDates
          /\ \E n \in BarsFor(issues[k]) : ~IsZero(ganttData[n].MeanDate)
          /\ UpdatesFor(issues[k], updates) = {}

\* date-only equality of a recorded date and a proposed one, an unset
\* recorded date being equal to the zero proposal only
DateOnlyEqual(recorded, proposed) ==
    \/ recorded = Nil /\ proposed = 0
    \/ recorded /= Nil /\ recorded \div TicksPerDay = proposed \div TicksPerDay

\* the item a non-package entry is for is written by pass 3
Active(k) ==
    /\ Linked(issues[k])
    /\ ~isClosed(issues[k])
    /\ ~isOnHold(issues[k])
    /\ k \notin unschedulable

\* C7: for a non-package entry whose project-linked WorkItem is open, not
\* on hold and not unschedulable, no DateUpdate is emitted exactly when the
\* three proposed dates equal the three recorded ones by calendar day (an
\* unset date being equal to a zero proposal); otherwise exactly one
\* set-dates write carrying the three proposed values is emitted.
C7_WriteIffSomeDateDiffers ==
    Fresh =>
        \A n \in 1..Len(ganttData) : \A k \in DOMAIN issues :
            (/\ ~ganttData[n].IsPackage
             /\ ganttData[n].ID = PrepTaskID(issues[k])
             /\ Active(k))
            => IF /\ DateOnlyEqual(issues[k].ExpectedStart,
                                   ganttData[n].ExpStartDate)
                  /\ DateOnlyEqual(issues[k].ExpectedCompletion,
                                   ganttData[n].MeanDate)
                  /\ DateOnlyEqual(issues[k].Completion98,
                                   ganttData[n].End98Date)
               THEN UpdatesFor(issues[k], updates) = {}
               ELSE /\ Cardinality(UpdatesFor(issues[k], updates)) = 1
                    /\ \A m \in UpdatesFor(issues[k], updates) :
                          /\ ~updates[m].ClearDates
                          /\ updates[m].ClearReason = ""
                          /\ updates[m].ExpectedStart =
                                ganttData[n].ExpStartDate
                          /\ updates[m].ExpectedCompletion =
                                ganttData[n].MeanDate
                          /\ updates[m].Completion98 =
                                ganttData[n].End98Date

\* an active item with no recorded start and a zero proposed start, whose
\* recorded completion differs from the proposal in the time of day only,
\* received no DateUpdate
C7_Witness ==
    /\ Fresh
    /\ \E n \in 1..Len(ganttData) : \E k \in DOMAIN issues :
          /\ ~ganttData[n].IsPackage
          /\ ganttData[n].ID = PrepTaskID(issues[k])
          /\ Active(k)
          /\ issues[k].ExpectedStart = Nil
          /\ ganttData[n].ExpStartDate = 0
          /\ issues[k].ExpectedCompletion /= Nil
          /\ issues[k].ExpectedCompletion /= ganttData[n].MeanDate
          /\ UpdatesFor(issues[k], updates) = {}

\* C8: a project-linked WorkItem that is closed or on hold never gets a
\* set-dates write, even when it has nothing to clear and the scheduler
\* output has an entry with dates for it.
C8_TerminalNeverWritten ==
    Fresh =>
        \A k \in DOMAIN issues :
            (Linked(issues[k]) /\ (isClosed(issues[k]) \/ isOnHold(issues[k])))
            => \A n \in UpdatesFor(issues[k], updates) : updates[n].ClearDates

\* a closed item with no date and no estimate, with an entry proposing
\* dates, received no DateUpdate
C8_Witness ==
    /\ Fresh
    /\ \E k \in DOMAIN issues :
          /\ Linked(issues[k])
          /\ isClosed(issues[k])
          /\ ~issues[k].HasSchedulingDates
          /\ ~HasEstimate(issues[k])
          /\ \E n \in BarsFor(issues[k]) : ~IsZero(ganttData[n].MeanDate)
          /\ UpdatesFor(issues[k], updates) = {}

\* the DateUpdates PrepareUpdates returns for an item when the store holds
\* that item only
DecidedAlone(k) ==
    LET list == PrepareUpdates(ganttData, [j \in {k} |-> issues[k]],
                               unschedulable,
                               [first |-> <<k>>, lookup |-> <<k>>,
                                second |-> <<k>>])
    IN  {list[n] : n \in UpdatesFor(issues[k], list)}

\* C9: the DateUpdates of an item are those it gets when it is alone in the
\* store, whatever the state of an item of another repository with the same
\* number, and each carries the owner, repository and number of its item.
C9_DecidedIndependently ==
    Fresh =>
        \A k \in DOMAIN issues :
            /\ {updates[n] : n \in UpdatesFor(issues[k], updates)}
                  = DecidedAlone(k)
            /\ \A n \in UpdatesFor(issues[k], updates) :
                  /\ updates[n].Owner = issues[k].Owner
                  /\ updates[n].Repo = issues[k].Repo
                  /\ updates[n].IssueNum = issues[k].IssueNum

\* of two issues with the same number in different repositories, the
\* closed one received a clear and the open, flagged one its own clear
C9_Witness ==
    /\ Fresh
    /\ \E j, k \in DOMAIN issues :
          /\ ~issues[j].IsDraft /\ ~issues[k].IsDraft
          /\ issues[j].IssueNum = issues[k].IssueNum
          /\ issues[j].Owner /= issues[k].Owner
          /\ isClosed(issues[j])
          /\ \E n \in UpdatesFor(issues[j], updates) :
                updates[n].ClearReason = "closed"
          /\ ~isClosed(issues[k]) /\ ~isOnHold(issues[k])
          /\ \E n \in UpdatesFor(issues[k], updates) :
                updates[n].ClearReason = "unschedulable"

(***************************************************************************)
(* Properties of the conversion                                            *)
(***************************************************************************)
Converted == pc = "converted"

\* the items of the store a task id names
ItemsOfTask(id) == {k \in DOMAIN issues : TaskID(issues[k]) = id}

Closed(iwp) == EqualFold(iwp.State, "closed")

Held(iwp) == iwp.SchedulingStatus = "On Hold" \/ iwp.IsDraft

\* C10: every id in the DependsOn list of a Task returned by IssuesToTasks
\* is the id of a Task of the same run, and the WorkItem of that dependency
\* is neither closed nor on hold (Scheduling Status "On Hold" or draft).
C10_DependsOnLiveTasks ==
    Converted =>
        \A n \in 1..Len(tasks) :
            \A m \in 1..Len(tasks[n].DependsOn) :
                LET dep == tasks[n].DependsOn[m]
                IN  /\ \E t \in 1..Len(tasks) : tasks[t].ID = dep
                    /\ ItemsOfTask(dep) /= {}
                    /\ \A k \in ItemsOfTask(dep) :
                          ~Closed(issues[k]) /\ ~Held(issues[k])

\* one task keeps an edge to an open item while another task has lost its
\* edge to a closed item, and an edge to an issue outside the project is gone
C10_Witness ==
    /\ Converted
    /\ \E n, t \in 1..Len(tasks) :
          /\ n /= t
          /\ tasks[t].DependsOn = <<tasks[n].ID>>
          /\ tasks[n].DependsOn = <<>>
          /\ \E k \in DOMAIN issues :
                /\ TaskID(issues[k]) = tasks[n].ID
                /\ \E e \in 1..Len(issues[k].BlockedBy) :
                      issues[k].BlockedBy[e] = MissingRef
                /\ \E e \in 1..Len(issues[k].BlockedBy) :
                      /\ IssueKey(issues[k].BlockedBy[e].Owner,
                                  issues[k].BlockedBy[e].Repo,
                                  issues[k].BlockedBy[e].Number)
                            \in DOMAIN issues
                      /\ DepID(issues[k].BlockedBy[e].Owner,
                               issues[k].BlockedBy[e].Repo,
                               issues[k].BlockedBy[e].Number) = tasks[t].ID
                      /\ \A j \in ItemsOfTask(tasks[t].ID) :
                            Closed(issues[j])

\* the item a task was made from
ItemOfTask(n) == issues[tasks[n].Ref[1]]

\* an open item that is not on hold: the items IssuesToTasks diagnoses
Scheduled(iwp) == ~Closed(iwp) /\ ~Held(iwp)

\* positions in schedIssues of the diagnostics of an item for a reason
DiagnosticsOf(ref, reason) ==
    {d \in 1..Len(schedIssues) :
        schedIssues[d].IssueRef = ref /\ schedIssues[d].Reason = reason}

\* no diagnostic when there is nothing to report, else one with the details
ReportsExactly(ref, reason, details) ==
    IF details = <<>> THEN DiagnosticsOf(ref, reason) = {}
    ELSE /\ Cardinality(DiagnosticsOf(ref, reason)) = 1
         /\ \A d \in DiagnosticsOf(ref, reason) :
               schedIssues[d].Details = details

\* the four buckets of a blocked-by edge
Target(b) == IssueKey(b.Owner, b.Repo, b.Number)

IsAbsent(b) == Target(b) \notin DOMAIN issues

IsClosedTarget(b) == ~IsAbsent(b) /\ Closed(issues[Target(b)])

IsHeldTarget(b) ==
    ~IsAbsent(b) /\ ~Closed(issues[Target(b)]) /\ Held(issues[Target(b)])

IsGenuine(b) ==
    ~IsAbsent(b) /\ ~Closed(issues[Target(b)]) /\ ~Held(issues[Target(b)])

IdsOf(blockers) ==
    [e \in 1..Len(blockers) |->
        DepID(blockers[e].Owner, blockers[e].Repo, blockers[e].Number)]

\* C11: every blockedBy edge falls in one bucket, tested in the order
\* absent, closed, on hold, genuine: DependsOn holds exactly the genuine
\* targets, a closed target is dropped even when it is on hold, and for an
\* open item that is not on hold the details of missing_dependency are
\* exactly the absent targets and those of onhold_dependency exactly the
\* open targets on hold.
C11_EdgesClassified ==
    Converted =>
        \A n \in 1..Len(tasks) :
            LET iwp == ItemOfTask(n)
                ref == tasks[n].Ref[1]
            IN  /\ tasks[n].DependsOn =
                      IdsOf(SelectSeq(iwp.BlockedBy, IsGenuine))
                /\ Scheduled(iwp) =>
                      /\ ReportsExactly(ref, "missing_dependency",
                             IdsOf(SelectSeq(iwp.BlockedBy, IsAbsent)))
                      /\ ReportsExactly(ref, "onhold_dependency",
                             IdsOf(SelectSeq(iwp.BlockedBy, IsHeldTarget)))

\* an open item blocked by an absent issue and by an open item on hold:
\* neither is a dependency and both diagnostics are raised
C11_Witness ==
    /\ Converted
    /\ \E n \in 1..Len(tasks) :
          /\ Scheduled(ItemOfTask(n))
          /\ \E e \in 1..Len(ItemOfTask(n).BlockedBy) :
                IsAbsent(ItemOfTask(n).BlockedBy[e])
          /\ \E e \in 1..Len(ItemOfTask(n).BlockedBy) :
                IsHeldTarget(ItemOfTask(n).BlockedBy[e])
          /\ tasks[n].DependsOn = <<>>
          /\ DiagnosticsOf(tasks[n].Ref[1], "missing_dependency") /= {}
          /\ DiagnosticsOf(tasks[n].Ref[1], "onhold_dependency") /= {}

\* C12: every SchedulingIssue IssuesToTasks returns refers to an item of
\* the store that is open, not a draft and not on hold.
C12_OnlyScheduledDiagnosed ==
    Converted =>
        \A d \in 1..Len(schedIssues) :
            /\ schedIssues[d].IssueRef \in DOMAIN issues
            /\ Scheduled(issues[schedIssues[d].IssueRef])
            /\ ~issues[schedIssues[d].IssueRef].IsDraft

\* a closed or on-hold item with an absent blocker and no estimates gets no
\* diagnostic while an open item of the same store gets one
C12_Witness ==
    /\ Converted
    /\ schedIssues /= <<>>
    /\ \E k \in DOMAIN issues :
          /\ ~Scheduled(issues[k])
          /\ issues[k].LowEstimate = Nil
          /\ \E e \in 1..Len(issues[k].BlockedBy) :
                IsAbsent(issues[k].BlockedBy[e])
          /\ \A d \in 1..Len(schedIssues) : schedIssues[d].IssueRef /= k

\* the estimate fields an item does not have, low first
AbsentEstimates(iwp) ==
    (IF iwp.LowEstimate = Nil THEN <<"Low Estimate">> ELSE <<>>)
    \o (IF iwp.HighEstimate = Nil THEN <<"High Estimate">> ELSE <<>>)

\* C13: for an open item that is not on hold, missing_estimate is raised
\* iff an estimate is absent and lists exactly the absent fields (zero is
\* present), and invalid_estimate is raised iff both are present and
\* high < low (equal values raise nothing).
C13_EstimatesValidated ==
    Converted =>
        \A k \in DOMAIN issues :
            Scheduled(issues[k]) =>
                /\ ReportsExactly(k, "missing_estimate",
                                  AbsentEstimates(issues[k]))
                /\ Cardinality(DiagnosticsOf(k, "invalid_estimate")) =
                      IF /\ issues[k].LowEstimate /= Nil
                         /\ issues[k].HighEstimate /= Nil
                         /\ issues[k].HighEstimate < issues[k].LowEstimate
                      THEN 1 ELSE 0

\* one open item has high < low and is reported invalid, another has the
\* estimates 0 and 0 and is not reported at all
C13_Witness ==
    /\ Converted
    /\ \E k, j \in DOMAIN issues :
          /\ Scheduled(issues[k])
          /\ issues[k].LowEstimate = 8 /\ issues[k].HighEstimate = 4
          /\ DiagnosticsOf(k, "invalid_estimate") /= {}
          /\ Scheduled(issues[j])
          /\ issues[j].LowEstimate = 0 /\ issues[j].HighEstimate = 0
          /\ DiagnosticsOf(j, "missing_estimate") = {}
          /\ DiagnosticsOf(j, "invalid_estimate") = {}

\* the value a Task carries for a stored estimate: an absent one is 0
Carried(estimate) == IF estimate = Nil THEN 0 ELSE estimate

\* C14: a Task gets the estimates 1 and 4 exactly when both estimates are
\* absent and the item is not closed, also when missing_estimate is raised
\* for the item; otherwise it carries the stored values; every item of the
\* store is emitted as one Task.
C14_DefaultEstimates ==
    Converted =>
        /\ \A k \in DOMAIN issues :
              Cardinality({n \in 1..Len(tasks) : tasks[n].Ref = <<k>>}) = 1
        /\ \A n \in 1..Len(tasks) :
              LET iwp == ItemOfTask(n)
              IN  IF /\ iwp.LowEstimate = Nil
                     /\ iwp.HighEstimate = Nil
                     /\ ~Closed(iwp)
                  THEN /\ tasks[n].EstimateLow = 1
                       /\ tasks[n].EstimateHigh = 4
                       /\ ~Held(iwp) =>
                             DiagnosticsOf(tasks[n].Ref[1],
                                           "missing_estimate") /= {}
                  ELSE /\ tasks[n].EstimateLow = Carried(iwp.LowEstimate)
                       /\ tasks[n].EstimateHigh = Carried(iwp.HighEstimate)

\* an open item without estimates is a Task with 1 and 4 and is reported,
\* a closed item without estimates is a Task without them
C14_Witness ==
    /\ Converted
    /\ \E n, m \in 1..Len(tasks) :
          /\ Scheduled(ItemOfTask(n))
          /\ ItemOfTask(n).LowEstimate = Nil
          /\ ItemOfTask(n).HighEstimate = Nil
          /\ tasks[n].EstimateLow = 1 /\ tasks[n].EstimateHigh = 4
          /\ DiagnosticsOf(tasks[n].Ref[1], "missing_estimate") /= {}
          /\ Closed(ItemOfTask(m))
          /\ ItemOfTask(m).LowEstimate = Nil
          /\ ItemOfTask(m).HighEstimate = Nil
          /\ tasks[m].EstimateLow = 0 /\ tasks[m].EstimateHigh = 0

(***************************************************************************)
(* Properties of the ordering of the packages                              *)
(***************************************************************************)
\* the groups: the non-empty milestone titles of the tasks
Groups == {tasks[n].PackageID : n \in 1..Len(tasks)} \ {<<>>}

Members(g) == {n \in 1..Len(tasks) : tasks[n].PackageID = g}

FirstSeen(g) == CHOOSE n \in Members(g) : \A m \in Members(g) : n <= m

GroupDueDates(g) ==
    {ItemOfTask(n).MilestoneDueDate : n \in Members(g)} \ {Nil}

EarliestDue(g) ==
    CHOOSE d \in GroupDueDates(g) : \A x \in GroupDueDates(g) : d <= x

Versioned(g) == parseSemver(g).ok

VersionOf(g) ==
    <<parseSemver(g).major, parseSemver(g).minor, parseSemver(g).patch>>

VersionBefore(v, w) ==
    \/ v[1] < w[1]
    \/ v[1] = w[1] /\ v[2] < w[2]
    \/ v[1] = w[1] /\ v[2] = w[2] /\ v[3] < w[3]

\* group g is ranked before group h by the five rules
RankedBefore(g, h) ==
    IF (GroupDueDates(g) = {}) /= (GroupDueDates(h) = {})
    THEN GroupDueDates(g) /= {}
    ELSE IF GroupDueDates(g) /= {} /\ EarliestDue(g) /= EarliestDue(h)
    THEN EarliestDue(g) < EarliestDue(h)
    ELSE IF Versioned(g) /= Versioned(h) THEN Versioned(g)
    ELSE IF Versioned(g) /\ VersionOf(g) /= VersionOf(h)
    THEN VersionBefore(VersionOf(g), VersionOf(h))
    ELSE FirstSeen(g) < FirstSeen(h)

\* C19: groups are ranked by due date present, earliest due date, version
\* present, version, first-seen index; every Task of a group has the rank
\* of the group as PackageOrder, distinct groups have distinct ranks, and
\* every ungrouped Task has a rank greater than that of every group.
C19_PackagesRanked ==
    Converted =>
        \A n, m \in 1..Len(tasks) :
            LET g == tasks[n].PackageID
                h == tasks[m].PackageID
            IN  /\ g = h => tasks[n].PackageOrder = tasks[m].PackageOrder
                /\ g /= <<>> /\ h /= <<>> /\ g /= h =>
                      /\ tasks[n].PackageOrder /= tasks[m].PackageOrder
                      /\ RankedBefore(g, h) <=>
                            tasks[n].PackageOrder < tasks[m].PackageOrder
                /\ g = <<>> /\ h /= <<>> =>
                      tasks[n].PackageOrder > tasks[m].PackageOrder

\* "S1" with a due date is seen last and ranked first, "1.9.0" is ranked
\* before "v1.10.0" that was seen before it, and an ungrouped task is last
C19_Witness ==
    /\ Converted
    /\ \E a, b, c, d \in 1..Len(tasks) :
          /\ tasks[a].PackageID = <<"v", "1", ".", "1", "0", ".", "0">>
          /\ tasks[b].PackageID = <<"1", ".", "9", ".", "0">>
          /\ tasks[c].PackageID = <<"S", "1">>
          /\ tasks[d].PackageID = <<>>
          /\ GroupDueDates(tasks[a].PackageID) = {}
          /\ GroupDueDates(tasks[b].PackageID) = {}
          /\ GroupDueDates(tasks[c].PackageID) /= {}
          /\ a < b /\ b < c
          /\ tasks[c].PackageOrder < tasks[b].PackageOrder
          /\ tasks[b].PackageOrder < tasks[a].PackageOrder
          /\ tasks[a].PackageOrder < tasks[d].PackageOrder

(***************************************************************************)
(* Properties of the run                                                   *)
(***************************************************************************)
\* the entries that report a cycle for a task
CyclicEntries ==
    {e \in 1..Len(entries) :
        ~entries[e].IsPackage /\ Len(entries[e].Cycle) > 0}

\* the items of the store an entry is about
ItemsOfEntry(e) ==
    {k \in DOMAIN issues : PrepTaskID(issues[k]) = entries[e].ID}

\* C15: ExtractCycleIssues returns the existing diagnostics unchanged as a
\* prefix, followed by one cycle diagnostic, with the raw cycle path of the
\* entry as details, for every item that a non-package entry with a
\* non-empty cycle is about and that held no diagnostic of any reason, and
\* by nothing else: no item that already held a diagnostic gets one, and no
\* item gets two.
C15_CycleOncePerCleanItem ==
    [][(pc = "cycles" /\ pc' = "scheduled") =>
          LET old == Len(schedIssues)
              added == (old + 1)..Len(schedIssues')
          IN  /\ Len(schedIssues') >= old
              /\ SubSeq(schedIssues', 1, old) = schedIssues
              /\ \A d \in added :
                    /\ schedIssues'[d].Reason = "cycle"
                    /\ schedIssues'[d].IssueRef \notin HasIssue(schedIssues)
                    /\ \E e \in CyclicEntries :
                          /\ schedIssues'[d].IssueRef \in ItemsOfEntry(e)
                          /\ schedIssues'[d].Details = entries[e].Cycle
              /\ \A d, f \in added :
                    schedIssues'[d].IssueRef = schedIssues'[f].IssueRef
                        => d = f
              /\ \A e \in CyclicEntries :
                    \A k \in ItemsOfEntry(e) :
                        k \notin HasIssue(schedIssues) =>
                            \E d \in added : schedIssues'[d].IssueRef = k
      ]_vars

\* the scheduler reports a cycle for both items; the one that already held
\* a diagnostic of another reason gets no cycle diagnostic, the other does
C15_Witness ==
    /\ pc = "scheduled"
    /\ \E e, f \in CyclicEntries :
          \E k \in ItemsOfEntry(e), j \in ItemsOfEntry(f) :
              /\ \E d \in 1..Len(schedIssues) :
                    /\ schedIssues[d].IssueRef = k
                    /\ schedIssues[d].Reason = "missing_dependency"
              /\ \A d \in 1..Len(schedIssues) :
                    schedIssues[d].IssueRef = k =>
                        schedIssues[d].Reason /= "cycle"
              /\ \E d \in 1..Len(schedIssues) :
                    /\ schedIssues[d].IssueRef = j
                    /\ schedIssues[d].Reason = "cycle"
                    /\ schedIssues[d].Details = entries[f].Cycle

\* C16: DetectAtRiskIssues emits an at_risk diagnostic for a DateUpdate iff
\* the update is a set-dates write, its item has a due date and the
\* proposed mean-completion date is after the due date; equal dates are
\* not at risk.
C16_AtRiskIffDateAfterDue ==
    pc = "reported" =>
        \A n \in 1..Len(updates) :
            LET ref == IssueKey(updates[n].Owner, updates[n].Repo,
                                updates[n].IssueNum)
            IN  (\E d \in 1..Len(atRiskIssues) :
                    atRiskIssues[d].IssueRef = ref)
                <=> /\ ~updates[n].ClearDates
                    /\ issues[ref].DueDate /= Nil
                    /\ FormatDate(updates[n].ExpectedCompletion)
                          > FormatDate(issues[ref].DueDate)

\* all the diagnostics of the run so far
Accumulated == schedIssues \o atRiskIssues

Blocks(a, b) ==
    \E e \in 1..Len(issues[a].Blocking) : Target(issues[a].Blocking[e]) = b

\* positions in the blockedBy list of b of the edge from a
EdgesFrom(a, b) ==
    {e \in 1..Len(issues[b].BlockedBy) :
        issues[b].BlockedBy[e] =
            IssueRef(issues[a].Owner, issues[a].Repo, issues[a].IssueNum)}

\* C17: after BuildReverseDependencies, for every pair of items A and B of
\* the store where A declares a blocking edge to B, the blockedBy list of B
\* holds the (owner, repo, number) of A exactly once, whether or not B had
\* declared it, also across repositories.
C17_ReverseEdgeOnce ==
    pc = "fetched" =>
        \A a, b \in DOMAIN issues :
            Blocks(a, b) => Cardinality(EdgesFrom(a, b)) = 1

\* A blocks C of its repository and B of another one; one of them lists A
\* first among several edges, and each holds the edge from A once
C17_Witness ==
    /\ pc = "fetched"
    /\ Blocks(RefOf(IdentA), RefOf(IdentB))
    /\ Blocks(RefOf(IdentA), RefOf(IdentC))
    /\ Blocks(RefOf(IdentC), RefOf(IdentB))
    /\ issues[RefOf(IdentB)].BlockedBy = <<RefTo(IdentA), RefTo(IdentC)>>
    /\ issues[RefOf(IdentC)].BlockedBy = <<RefTo(IdentA)>>

(***************************************************************************)
(* Properties of the redaction                                             *)
(***************************************************************************)
\* an item of the store marked private lies in the repository
InPrivateSet(owner, repo) ==
    \E ref \in DOMAIN issues :
        /\ issues[ref].IsPrivate
        /\ issues[ref].Owner = owner
        /\ issues[ref].Repo = repo

\* the repository is the one the run is for
IsCurrent(owner, repo) == filter.currentRepo = owner \o <<"/">> \o repo

MustRedact(owner, repo) ==
    InPrivateSet(owner, repo) /\ ~IsCurrent(owner, repo)

\* the numerals of the strings asked about, with the number each one writes
Numerals ==
    {[text |-> FormatInt(n), value |-> n] : n \in IssueNums}
        \cup {[text |-> <<"1">>, value |-> 1],
              [text |-> <<"2">>, value |-> 2],
              [text |-> <<"+", "1">>, value |-> 1],
              [text |-> <<"-", "1">>, value |-> 0 - 1],
              [text |-> <<"0", "7">>, value |-> 7]}

\* the readings of a string as owner/repo#N with a redacted repository
RedactedReadings(depID) ==
    {<<o, r, n>> \in Owners \X Repos \X Numerals :
        /\ depID = o \o <<"/">> \o r \o <<"#">> \o n.text
        /\ MustRedact(o, r)}

\* C18: ShouldRedact(owner, repo) is true iff the repository is in the
\* private set and is not the current one.  When it is true RedactRepo
\* returns "[private]", RedactRef returns "[private] #N" and RedactDepID
\* returns "[private]#N"; when it is false each helper returns its plain
\* text, and RedactDepID returns every string that is not of the form
\* owner/repo#N unchanged.
C18_RedactsExactlyOtherPrivate ==
    pc = "filtered" /\ subject /= <<>> =>
        CASE subject.op = "ShouldRedact" ->
               redacted = MustRedact(subject.owner, subject.repo)
          [] subject.op = "RedactRepo" ->
               redacted = IF MustRedact(subject.owner, subject.repo)
                          THEN <<"[", "p", "r", "i", "v", "a", "t", "e", "]">>
                          ELSE subject.owner \o <<"/">> \o subject.repo
          [] subject.op = "RedactRef" ->
               redacted =
                   (IF MustRedact(subject.owner, subject.repo)
                    THEN <<"[", "p", "r", "i", "v", "a", "t", "e", "]">>
                    ELSE subject.owner \o <<"/">> \o subject.repo)
                       \o <<" ", "#">> \o FormatInt(subject.issueNum)
          [] subject.op = "RedactDepID" ->
               IF RedactedReadings(subject.depID) = {}
               THEN redacted = subject.depID
               ELSE \A reading \in RedactedReadings(subject.depID) :
                        redacted =
                            <<"[", "p", "r", "i", "v", "a", "t", "e", "]",
                              "#">> \o FormatInt(reading[3].value)

\* the filter of a run for o/m whose own repository and o/s are private: it
\* has redacted the dependency id o/s#42
C18_Witness ==
    /\ pc = "filtered"
    /\ filter.currentRepo = <<"o", "/", "m">>
    /\ InPrivateSet(<<"o">>, <<"m">>)
    /\ InPrivateSet(<<"o">>, <<"s">>)
    /\ subject = [op |-> "RedactDepID",
                  depID |-> <<"o", "/", "s", "#", "4", "2">>]
    /\ redacted = <<"[", "p", "r", "i", "v", "a", "t", "e", "]", "#",
                    "4", "2">>

(***************************************************************************)
(* Properties of the DateUpdates                                           *)
(***************************************************************************)
\* a DateUpdate that erases: a known reason and no date
IsClear(u) ==
    /\ u.ClearDates
    /\ u.ClearReason \in {"closed", "on hold", "unschedulable"}
    /\ IsZero(u.ExpectedStart)
    /\ IsZero(u.ExpectedCompletion)
    /\ IsZero(u.Completion98)

\* a DateUpdate that writes: no reason, the three dates of a bar of the item
IsSetDates(u) ==
    /\ ~u.ClearDates
    /\ u.ClearReason = ""
    /\ \E n \in 1..Len(ganttData) :
          /\ ~ganttData[n].IsPackage
          /\ ganttData[n].ID = DepID(u.Owner, u.Repo, u.IssueNum)
          /\ u.ExpectedStart = ganttData[n].ExpStartDate
          /\ u.ExpectedCompletion = ganttData[n].MeanDate
          /\ u.Completion98 = ganttData[n].End98Date

\* C21: every DateUpdate returned by PrepareUpdates is either a clear
\* (ClearDates set, reason "closed", "on hold" or "unschedulable", the three
\* dates zero) or a set-dates write (ClearDates unset, empty reason, the
\* three proposed dates), and never both.
C21_ClearOrSetDates ==
    Fresh =>
        \A n \in 1..Len(updates) :
            IsClear(updates[n]) /= IsSetDates(updates[n])

\* one returned list holds a clear of an item that stores dates and a
\* set-dates write
C21_Witness ==
    /\ Fresh
    /\ \E m, n \in 1..Len(updates) :
          /\ IsClear(updates[m])
          /\ \E k \in DOMAIN issues :
                /\ issues[k].ProjectItemID = updates[m].Project.ItemID
                /\ issues[k].HasSchedulingDates
          /\ IsSetDates(updates[n])

(***************************************************************************)
(* Properties of the order of the tasks                                    *)
(***************************************************************************)
\* the Task sequences IssuesToTasks can return for the store
TaskSequences ==
    {IssuesToTasks(issues, sorted, ordered).tasks :
        <<sorted, ordered>> \in
            {<<f, g>> \in Perms(DOMAIN issues) \X Perms(
                 {issues[k].Milestone : k \in DOMAIN issues} \ {<<>>}) :
                /\ f \in SortedOrders(issues)
                /\ g \in OrderedPackages(PackageInfos(f, issues))}}

\* no two items of the store share a display order
DistinctOrders ==
    \A k, l \in DOMAIN issues :
        k /= l => issues[k].Order /= issues[l].Order

\* C22: IssuesToTasks returns one Task per WorkItem, in ascending display
\* order, and the same store always yields the same Task sequence, items of
\* equal display order included.
C22_SameStoreSameTasks ==
    Converted =>
        /\ Len(tasks) = Cardinality(DOMAIN issues)
        /\ \A m, n \in 1..Len(tasks) :
              m < n => ItemOfTask(m).Order <= ItemOfTask(n).Order
        /\ TaskSequences = {tasks}

(***************************************************************************)
(* Properties of the writes of run                                         *)
(***************************************************************************)
\* run has entered its write loop
Writing == pc = "writing" \/ (pc = "done" /\ updates /= <<>> /\ ~dryRun)

\* the DateUpdates the write loop has handed to ApplyUpdate
Handed == SubSeq(updates, 1, Len(updates) - Len(pending))

\* the fields of an item for which a call was made
AttemptedFields(itemID) ==
    {attempts[i].field : i \in {j \in 1..Len(attempts) :
                                   attempts[j].ItemID = itemID}}

\* the fields ApplyUpdate calls for when no call fails
FieldsCalledFor(update) ==
    LET calls == ApplyUpdateCalls(update, {}).calls
    IN  {calls[i].field : i \in 1..Len(calls)}

\* C23: a failing write is recoverable: every field of every DateUpdate
\* handed to ApplyUpdate is attempted whether or not an earlier call failed,
\* every DateUpdate of the list is handed over, and the run returns nil.
C23_FailuresDoNotStopWrites ==
    Writing =>
        /\ result /= "error"
        /\ \A n \in 1..Len(Handed) :
              AttemptedFields(Handed[n].Project.ItemID)
                  = FieldsCalledFor(Handed[n])
        /\ pc = "done" => pending = <<>> /\ result = "nil"

\* the first call of the first DateUpdate failed; the other fields of that
\* item and a second DateUpdate were attempted and the run returned nil
C23_Witness ==
    /\ pc = "done"
    /\ result = "nil"
    /\ Len(updates) = 2
    /\ Len(attempts) > 3
    /\ ~attempts[1].ok
    /\ attempts[2].ItemID = attempts[1].ItemID
    /\ attempts[Len(attempts)].ItemID /= attempts[1].ItemID

\* C24: no write is attempted before the fetch and the scheduling have both
\* succeeded: a failed fetch or a failed schedule computation ends the run
\* with an error and no write, and a dry run ends with no write.
C24_NoWriteBeforeScheduled ==
    /\ attempts /= <<>> =>
          /\ pc \in {"writing", "done"}
          /\ tasks /= <<>>
          /\ ganttData /= <<>>
          /\ result /= "error"
    /\ result = "error" => pc = "done" /\ attempts = <<>>
    /\ dryRun => attempts = <<>>
    /\ (pc = "done" /\ DOMAIN issues /= {} /\ ganttData = <<>>) =>
          result = "error"

\* the schedule computation of a store that holds stale dates failed: the
\* run ended with an error and wrote nothing
C24_Witness ==
    /\ pc = "done"
    /\ result = "error"
    /\ tasks /= <<>>
    /\ ganttData = <<>>
    /\ \E k \in DOMAIN issues : issues[k].HasSchedulingDates
    /\ attempts = <<>>

\* the calls made for an item
CallsFor(itemID) ==
    {attempts[i] : i \in {j \in 1..Len(attempts) :
                             attempts[j].ItemID = itemID}}

\* the date fields of a set-dates DateUpdate whose date is not zero
NonZeroDates(u) ==
    {f \in DateFields :
        \/ f = "Expected Start" /\ ~IsZero(u.ExpectedStart)
        \/ f = "Expected Completion" /\ ~IsZero(u.ExpectedCompletion)
        \/ f = "98% Completion" /\ ~IsZero(u.Completion98)}

\* C25: ApplyUpdate on a clear always clears the three date fields and
\* clears the estimate fields only when the reason is "closed"; a clear with
\* reason "on hold" or "unschedulable" makes no call on an estimate field;
\* a set-dates DateUpdate clears no field and writes only its non-zero
\* dates.
C25_ClearAndSetFrames ==
    Writing =>
        \A n \in 1..Len(Handed) :
            LET u == Handed[n]
                calls == CallsFor(u.Project.ItemID)
                fields == {c.field : c \in calls}
            IN  IF u.ClearDates
                THEN /\ \A c \in calls : c.op = "ClearField"
                     /\ DateFields \subseteq fields
                     /\ IF u.ClearReason = "closed"
                        THEN fields \cap EstimateFields
                                 = u.Project.FieldIDs \cap EstimateFields
                        ELSE fields \cap EstimateFields = {}
                ELSE /\ \A c \in calls : c.op = "UpdateDateField"
                     /\ fields = NonZeroDates(u)

\* an on-hold item that stores estimates was cleared and keeps them, and a
\* set-dates DateUpdate with a zero start wrote its two other dates
C25_Witness ==
    /\ pc = "done"
    /\ \E m, n \in 1..Len(updates) :
          /\ updates[m].ClearDates
          /\ updates[m].ClearReason = "on hold"
          /\ EstimateFields \subseteq updates[m].Project.FieldIDs
          /\ \E k \in DOMAIN issues :
                /\ issues[k].ProjectItemID = updates[m].Project.ItemID
                /\ issues[k].LowEstimate /= Nil
                /\ ~issues[k].HasSchedulingDates
          /\ ~updates[n].ClearDates
          /\ IsZero(updates[n].ExpectedStart)
          /\ Cardinality(CallsFor(updates[n].Project.ItemID)) = 2

(***************************************************************************)
(* Properties of BuildReverseDependencies as a function of the store       *)
(***************************************************************************)
\* BuildReverseDependencies runs in this step
Reversing == pc = "loaded" /\ pc' = "fetched"

\* s is the beginning of t
IsPrefix(s, t) == Len(s) <= Len(t) /\ SubSeq(t, 1, Len(s)) = s

\* the sources of the blocking edges of store iss that reach item b
SourcesOf(iss, b) ==
    {IssueRef(iss[a].Owner, iss[a].Repo, iss[a].IssueNum) :
        a \in {k \in DOMAIN iss :
                  \E e \in 1..Len(iss[k].Blocking) :
                      Target(iss[k].Blocking[e]) = b}}

\* C26: BuildReverseDependencies changes nothing but blockedBy lists: the
\* keys of the store, the blocking list and every other attribute of every
\* item stay as they were, the entries a blockedBy list had stay in place
\* at its head, and every entry added comes from a blocking edge between
\* two items of the store, so that an edge to an item outside the store
\* changes nothing.
C26_OnlyBlockedByGrows ==
    [][Reversing =>
          /\ DOMAIN issues' = DOMAIN issues
          /\ \A k \in DOMAIN issues :
                /\ [issues'[k] EXCEPT !.BlockedBy = issues[k].BlockedBy]
                       = issues[k]
                /\ IsPrefix(issues[k].BlockedBy, issues'[k].BlockedBy)
                /\ \A e \in (Len(issues[k].BlockedBy) + 1)
                               ..Len(issues'[k].BlockedBy) :
                      issues'[k].BlockedBy[e] \in SourcesOf(issues, k)]_vars

\* A blocks an issue outside the store and B; B, which had declared C
\* alone, now holds C and then A
C26_Witness ==
    /\ pc = "fetched"
    /\ \E e \in 1..Len(issues[RefOf(IdentA)].Blocking) :
          issues[RefOf(IdentA)].Blocking[e] = MissingRef
    /\ Blocks(RefOf(IdentA), RefOf(IdentB))
    /\ ~Blocks(RefOf(IdentC), RefOf(IdentB))
    /\ issues[RefOf(IdentB)].BlockedBy = <<RefTo(IdentC), RefTo(IdentA)>>

\* the two lists hold the same entries the same number of times
SameEntries(s, t) ==
    /\ Len(s) = Len(t)
    /\ \A x \in {s[i] : i \in 1..Len(s)} \cup {t[i] : i \in 1..Len(t)} :
          Cardinality({i \in 1..Len(s) : s[i] = x})
              = Cardinality({i \in 1..Len(t) : t[i] = x})

\* C28: BuildReverseDependencies is idempotent, a second pass over the
\* store it has enriched changes nothing, and its result does not depend on
\* the order in which the items are visited, up to the order of the entries
\* it appends.
C28_IdempotentAnyOrder ==
    [][Reversing =>
          \A order \in Perms(DOMAIN issues) :
              /\ BuildReverseDependencies(issues', order) = issues'
              /\ LET other == BuildReverseDependencies(issues, order)
                 IN  /\ DOMAIN other = DOMAIN issues'
                     /\ \A k \in DOMAIN other :
                           /\ SameEntries(other[k].BlockedBy,
                                          issues'[k].BlockedBy)
                           /\ [other[k] EXCEPT
                                  !.BlockedBy = issues'[k].BlockedBy]
                                  = issues'[k]]_vars

\* C, which had declared nothing, received the edge of B before the edge
\* of A: another order of visit appends them the other way round
C28_Witness ==
    /\ pc = "fetched"
    /\ issues[RefOf(IdentC)].BlockedBy = <<RefTo(IdentB), RefTo(IdentA)>>

(***************************************************************************)
(* Properties of the project linkage of the DateUpdates                    *)
(***************************************************************************)
\* C29: every DateUpdate returned by PrepareUpdates carries a project
\* linkage: an item without one gets no clear and no set-dates write in any
\* pass, and ApplyUpdate never answers "no project info" to a DateUpdate of
\* PrepareUpdates.
C29_UpdatesAreLinked ==
    Fresh =>
        /\ \A n \in 1..Len(updates) :
              /\ updates[n].Project /= NoProject
              /\ \A failing \in SUBSET AllFields :
                    ApplyUpdateCalls(updates[n], failing).err = ""
        /\ \A k \in DOMAIN issues :
              ~Linked(issues[k]) =>
                  \A n \in 1..Len(updates) :
                      RefOf(issues[k])
                          /= IssueKey(updates[n].Owner, updates[n].Repo,
                                      updates[n].IssueNum)

\* a store without project linkage: a closed item that holds dates, is
\* flagged unschedulable and has a bar got no DateUpdate
C29_Witness ==
    /\ Fresh
    /\ updates = <<>>
    /\ \E k \in DOMAIN issues :
          /\ ~Linked(issues[k])
          /\ isClosed(issues[k])
          /\ issues[k].HasSchedulingDates
          /\ k \in unschedulable
          /\ BarsFor(issues[k]) /= {}
    /\ \E k \in DOMAIN issues :
          /\ ~Linked(issues[k])
          /\ ~isClosed(issues[k])
          /\ ~isOnHold(issues[k])
          /\ issues[k].HasSchedulingDates
          /\ BarsFor(issues[k]) /= {}

(***************************************************************************)
(* Properties of the scheduler comment                                     *)
(***************************************************************************)
\* the comments of a list that begin with the marker of the scheduler
MarkerComments(listed) ==
    {i \in 1..Len(listed) : HasMarkerPrefix(listed[i].body)}

\* C27: an issue that starts with at most one marker comment has at most
\* one after any sequence of PostOrUpdateSchedulingComment and
\* DeleteSchedulingComment; PostOrUpdate updates the marker comment there
\* is instead of creating a second one, Delete without a marker comment
\* writes nothing and returns no error, and an operation whose listing of
\* the comments fails writes nothing.
C27_AtMostOneMarkerComment ==
    /\ Cardinality(MarkerComments(comments)) <= 1
    /\ subject /= <<>> =>
          /\ ~subject.listed =>
                /\ subject.calls = <<>>
                /\ comments = subject.before
                /\ result = "error"
          /\ (/\ subject.listed
              /\ subject.op = "PostOrUpdateSchedulingComment"
              /\ MarkerComments(subject.before) /= {}) =>
                /\ Len(subject.calls) = 1
                /\ subject.calls[1].op = "UpdateIssueComment"
                /\ \E i \in MarkerComments(subject.before) :
                      subject.calls[1].id = subject.before[i].id
                /\ Len(comments) = Len(subject.before)
                /\ \A i \in 1..Len(comments) :
                      comments[i].id = subject.before[i].id
          /\ (/\ subject.listed
              /\ subject.op = "DeleteSchedulingComment"
              /\ MarkerComments(subject.before) = {}) =>
                /\ subject.calls = <<>>
                /\ comments = subject.before
                /\ result = "nil"

\* the notice of an issue that had a user comment and a marker comment was
\* rewritten in place
C27_Witness ==
    /\ subject /= <<>>
    /\ subject.op = "PostOrUpdateSchedulingComment"
    /\ subject.listed
    /\ result = "nil"
    /\ Len(subject.before) = 2
    /\ MarkerComments(subject.before) = {2}
    /\ comments /= subject.before
    /\ MarkerComments(comments) = {2}

(***************************************************************************)
(* Properties of the redaction across repositories                         *)
(***************************************************************************)
\* the repositories that are private and not the current one
RedactedRepos ==
    {x \in Owners \X Repos : MustRedact(x[1], x[2])}

\* the dependency id of issue n of a repository
DepIDOf(x, n) == x[1] \o <<"/">> \o x[2] \o <<"#">> \o FormatInt(n)

\* the numbers of the issues a string can name in a redacted repository
RedactedNumbers(depID) ==
    {n \in IssueNums : \E x \in RedactedRepos : depID = DepIDOf(x, n)}

\* C30: for a repository that is private and not the current one, what
\* RedactRepo, RedactRef, RedactTitle and RedactDepID return depends on the
\* issue number alone: the same call for another such repository, owner or
\* title returns the same text.  RedactSchedulingIssue returns a copy whose
\* details naming such a repository are redacted, and leaves the record it
\* was given as it was.
C30_RedactedTextHidesRepo ==
    pc = "filtered" /\ subject /= <<>> =>
        CASE subject.op = "RedactRepo"
               /\ MustRedact(subject.owner, subject.repo) ->
               \A x \in RedactedRepos :
                   RedactRepo(filter, x[1], x[2]) = redacted
          [] subject.op = "RedactRef"
               /\ MustRedact(subject.owner, subject.repo) ->
               \A x \in RedactedRepos :
                   RedactRef(filter, x[1], x[2], subject.issueNum) = redacted
          [] subject.op = "RedactTitle"
               /\ MustRedact(subject.owner, subject.repo) ->
               \A x \in RedactedRepos, title \in Titles :
                   RedactTitle(filter, x[1], x[2], title) = redacted
          [] subject.op = "RedactDepID" ->
               \A n \in RedactedNumbers(subject.depID) :
                   \A x \in RedactedRepos :
                       RedactDepID(filter, DepIDOf(x, n)) = redacted
          [] subject.op = "RedactSchedulingIssue" ->
               /\ subject.si = subject.before
               /\ [redacted EXCEPT !.Details = subject.before.Details]
                      = subject.before
               /\ Len(redacted.Details) = Len(subject.before.Details)
               /\ \A i \in 1..Len(redacted.Details) :
                     LET detail == subject.before.Details[i]
                     IN  IF RedactedNumbers(detail) = {}
                         THEN redacted.Details[i] = detail
                         ELSE \A n \in RedactedNumbers(detail) :
                                  redacted.Details[i]
                                      = <<"[", "p", "r", "i", "v", "a", "t",
                                          "e", "]", "#">> \o FormatInt(n)
          [] OTHER -> TRUE

\* o/s and x/p are private and not current: the title of an issue of x/p
\* came back empty, as that of an issue of o/s would
C30_Witness ==
    /\ pc = "filtered"
    /\ MustRedact(<<"o">>, <<"s">>)
    /\ MustRedact(<<"x">>, <<"p">>)
    /\ subject = [op |-> "RedactTitle", owner |-> <<"x">>, repo |-> <<"p">>,
                  title |-> "Secret plan"]
    /\ redacted = ""

====
